---- MODULE Spec2Model ----
(***************************************************************************)
(* The ORCA Scheduler: the in-memory registry of deployments and services, *)
(* the replica fan-out of CreateDeployment with port striping and its      *)
(* compensating cleanup, and the port-conflict validation of               *)
(* CreateService.  Concurrent callers are the processes of Procs; the      *)
(* Scheduler's RWMutex serialises them.  The container runtime (Docker,    *)
(* reached through container.Manager) is external: each of its calls       *)
(* succeeds or fails nondeterministically.                                 *)
(***************************************************************************)
EXTENDS Integers, Sequences, FiniteSets, TLC

VARIABLES deployments, services, clock, containers, mutex, pc, local,
          dataDir

vars == <<deployments, services, clock, containers, mutex, pc, local, dataDir>>

(***************************************************************************)
(* Bounds of the model.                                                    *)
(***************************************************************************)
MaxReplicas == 2
MaxClock == 1
MaxContainers == 2
MaxPorts == 2
MaxRequestPorts == 3

Procs == {"p1", "p2"}
Names == {"a", "b"}
None == "none"

(***************************************************************************)
(* Strings that the code parses or formats are sequences of characters.    *)
(***************************************************************************)
Digits == <<"0", "1", "2", "3", "4", "5", "6", "7", "8", "9">>

IsDigit(c) == \E d \in 1..10 : Digits[d] = c

DigitVal(c) == (CHOOSE d \in 1..10 : Digits[d] = c) - 1

RECURSIVE FormatNat(_)
FormatNat(n) ==
    IF n < 10 THEN <<Digits[n + 1]>>
    ELSE FormatNat(n \div 10) \o <<Digits[(n % 10) + 1]>>

\* fmt.Sprintf("%d", n)
FormatInt(n) == IF n < 0 THEN <<"-">> \o FormatNat(0 - n) ELSE FormatNat(n)

RECURSIVE JoinChars(_)
JoinChars(s) == IF s = <<>> THEN "" ELSE Head(s) \o JoinChars(Tail(s))

RECURSIVE DigitPrefixLen(_)
DigitPrefixLen(s) ==
    IF s = <<>> \/ ~IsDigit(Head(s)) THEN 0 ELSE 1 + DigitPrefixLen(Tail(s))

RECURSIVE DigitsValue(_)
DigitsValue(s) ==
    IF s = <<>> THEN 0
    ELSE 10 * DigitsValue(SubSeq(s, 1, Len(s) - 1)) + DigitVal(s[Len(s)])

HasSign(s) == s # <<>> /\ Head(s) \in {"+", "-"}
Unsigned(s) == IF HasSign(s) THEN Tail(s) ELSE s
SignOf(s) == IF s # <<>> /\ Head(s) = "-" THEN 0 - 1 ELSE 1

\* mustParseInt: fmt.Sscanf(s, "%d", &result) scans an optional sign and the
\* longest run of digits; when there is none the scan fails, the error is
\* dropped and result keeps its zero value.
mustParseInt(s) ==
    LET n == DigitPrefixLen(Unsigned(s))
    IN  IF n = 0 THEN 0
        ELSE SignOf(s) * DigitsValue(SubSeq(Unsigned(s), 1, n))

\* strconv.Atoi: the whole string must be an optionally signed run of digits.
Atoi(s) ==
    LET u == Unsigned(s)
    IN  IF u # <<>> /\ DigitPrefixLen(u) = Len(u)
        THEN [ok |-> TRUE, val |-> SignOf(s) * DigitsValue(u)]
        ELSE [ok |-> FALSE, val |-> 0]

(***************************************************************************)
(* Port maps (map[string]string): nil, or a function from container-port   *)
(* keys to host-port strings.                                              *)
(***************************************************************************)
NilPorts == [isNil |-> TRUE, m |-> <<>>]
MkPorts(f) == [isNil |-> FALSE, m |-> f]

PortTemplates ==
    { NilPorts,
      MkPorts(("80/tcp" :> <<"8">>) @@ ("81/tcp" :> <<"9">>)),
      MkPorts("80/tcp" :> <<"8", "x">>) }

DeploymentSpecs ==
    { [Name |-> n, Replicas |-> r, Container |-> [Name |-> "app", Ports |-> t]] :
        n \in Names, r \in 1..MaxReplicas, t \in PortTemplates }

\* Mutant of ReplicaName: the replicas are numbered from 1.
ReplicaName_OneBased(name, i) == name \o "-" \o JoinChars(FormatInt(i + 1))

\* fmt.Sprintf("%s-%d", spec.Name, i)
ReplicaName(name, i) == name \o "-" \o JoinChars(FormatInt(i))

\* Mutant of StripePorts: the replica index is not added to the base port.
StripePorts_NoOffset(ports, i) ==
    IF ports.isNil THEN ports
    ELSE MkPorts([cp \in DOMAIN ports.m |-> FormatInt(mustParseInt(ports.m[cp]))])

\* The per-replica port map of CreateDeployment: a new map with every base
\* host port replaced by the decimal text of mustParseInt(base) + i.
StripePorts(ports, i) ==
    IF ports.isNil THEN ports
    ELSE MkPorts([cp \in DOMAIN ports.m |-> FormatInt(mustParseInt(ports.m[cp]) + i)])

ReplicaSpec(spec, i) ==
    [Name |-> ReplicaName(spec.Name, i), Ports |-> StripePorts(spec.Container.Ports, i)]

(***************************************************************************)
(* Service specs.                                                          *)
(***************************************************************************)
ServiceTypes == {"ClusterIP"}

PortMappings ==
    { [Port |-> 8, TargetPort |-> 80], [Port |-> 9, TargetPort |-> 80],
      [Port |-> 9, TargetPort |-> 0] }

PortLists == UNION { [1..n -> PortMappings] : n \in 0..MaxPorts }

ServiceSpecs ==
    { [Name |-> n, Type |-> t, Ports |-> ps] :
        n \in Names, t \in ServiceTypes, ps \in PortLists }

MaxPort == 65535

(***************************************************************************)
(* Errors.                                                                 *)
(***************************************************************************)
NoErr == [kind |-> "nil"]
ErrAlreadyExists(name) == [kind |-> "AlreadyExists", name |-> name]
ErrNotFound(name) == [kind |-> "NotFound", name |-> name]
ErrRuntime(call, i) == [kind |-> "Runtime", call |-> call, index |-> i]
ErrPortRange(port) == [kind |-> "PortRange", port |-> port]
ErrTargetPortRange(port) == [kind |-> "TargetPortRange", port |-> port]
ErrSelfConflict(port) == [kind |-> "SelfConflict", port |-> port]
ErrCrossService(port, name) == [kind |-> "CrossService", port |-> port, name |-> name]
ErrCrossDeployment(port, name, cport) ==
    [kind |-> "CrossDeployment", port |-> port, name |-> name, cport |-> cport]

(***************************************************************************)
(* The runtime.                                                            *)
(***************************************************************************)
Cids == 1..MaxContainers

RegisteredCids ==
    UNION { { deployments[id].Replicas[k].ID : k \in 1..Len(deployments[id].Replicas) } :
              id \in DOMAIN deployments }

\* Docker assigns every created container an ID that no other container has.
FreshCids == Cids \ (containers \cup RegisteredCids)

NewCid == CHOOSE c \in FreshCids : \A d \in FreshCids : c <= d

\* Stop and Remove of a container that is gone fail; otherwise every runtime
\* call may succeed or fail.
Outcomes(cid) == IF cid \in containers THEN BOOLEAN ELSE {FALSE}

RtCall(call, cid, name, ports, ok) ==
    [call |-> call, id |-> cid, name |-> name, ports |-> ports, ok |-> ok]

\* generateID: the decimal text of time.Now().UnixNano().  clock is the last
\* reading of the wall clock; the next reading is the same instant or a later
\* one.
Readings == { t \in {clock, clock + 1} : t <= MaxClock }
generateID(t) == FormatInt(t)

(***************************************************************************)
(* The mutex (sync.RWMutex).                                               *)
(***************************************************************************)
Idle == [op |-> "idle"]

\* Mutant of CanLock: Lock does not wait.
CanLock_Always == TRUE

CanLock == mutex.writer = None /\ mutex.readers = {}

\* Mutant of CanRLock: RLock does not wait for the writer.
CanRLock_Always == TRUE

CanRLock == mutex.writer = None

Lock(p) == mutex' = [mutex EXCEPT !.writer = p]
RLock(p) == mutex' = [mutex EXCEPT !.readers = @ \cup {p}]
\* Mutant of Unlock: only the shared lock is released.
Unlock_ReadersOnly(p) ==
    mutex' = [writer |-> mutex.writer, readers |-> mutex.readers \ {p}]

Unlock(p) ==
    mutex' = [writer |-> IF mutex.writer = p THEN None ELSE mutex.writer,
              readers |-> mutex.readers \ {p}]

\* NewStorage on a fresh data directory: the subdirectories exist and are
\* empty.
EmptyDir == [deployments |-> << >>, services |-> << >>]

Init ==
    /\ deployments = <<>>
    /\ services = <<>>
    /\ clock = 0
    /\ containers = {}
    /\ mutex = [writer |-> None, readers |-> {}]
    /\ pc = [p \in Procs |-> "idle"]
    /\ local = [p \in Procs |-> Idle]
    /\ dataDir = EmptyDir

DeploymentNamed(name) == { id \in DOMAIN deployments : deployments[id].Name = name }
\* Mutant of ServiceNamed: the scan of the services finds nothing.
ServiceNamed_None(name) == {}

ServiceNamed(name) == { id \in DOMAIN services : services[id].Name = name }

(***************************************************************************)
(* CreateDeployment                                                        *)
(***************************************************************************)
\* Mutant of CreateDeployment: the name is not checked.
CreateDeployment_NoNameCheck(p, spec) ==
    /\ pc[p] = "idle"
    /\ CanLock
    /\ Lock(p)
    /\ \E t \in Readings :
         /\ clock' = t
         /\ pc' = [pc EXCEPT ![p] = "cd_loop"]
         /\ local' = [local EXCEPT ![p] =
              [op |-> "CreateDeployment", spec |-> spec, log |-> <<>>,
               deployment |-> [ID |-> generateID(t), Name |-> spec.Name,
                               Spec |-> spec, Status |-> "creating",
                               Replicas |-> <<>>],
               i |-> 0]]
    /\ UNCHANGED <<deployments, services, containers, dataDir>>

\* Lock, the name check and the allocation of the deployment object.
CreateDeployment_Body(p, spec) ==
    /\ CanLock
    /\ Lock(p)
    /\ IF DeploymentNamed(spec.Name) # {}
       THEN /\ pc' = [pc EXCEPT ![p] = "ret"]
            /\ local' = [local EXCEPT ![p] =
                 [op |-> "CreateDeployment", spec |-> spec, log |-> <<>>,
                  err |-> ErrAlreadyExists(spec.Name)]]
            /\ clock' = clock
       ELSE \E t \in Readings :
            /\ clock' = t
            /\ pc' = [pc EXCEPT ![p] = "cd_loop"]
            /\ local' = [local EXCEPT ![p] =
                 [op |-> "CreateDeployment", spec |-> spec, log |-> <<>>,
                  deployment |-> [ID |-> generateID(t), Name |-> spec.Name,
                                  Spec |-> spec, Status |-> "creating",
                                  Replicas |-> <<>>],
                  i |-> 0]]
    /\ UNCHANGED <<deployments, services, containers, dataDir>>

\* A direct call of the Scheduler.
CreateDeployment(p, spec) == pc[p] = "idle" /\ CreateDeployment_Body(p, spec)

\* containerManager.Create for replica i
CreateDeployment_Create(p) ==
    /\ pc[p] = "cd_loop"
    /\ local[p].i < local[p].spec.Replicas
    /\ LET l == local[p]
           cs == ReplicaSpec(l.spec, l.i)
       IN \/ /\ FreshCids # {}
             /\ containers' = containers \cup {NewCid}
             /\ pc' = [pc EXCEPT ![p] = "cd_start"]
             /\ local' = [local EXCEPT ![p] =
                  [op |-> l.op, spec |-> l.spec, deployment |-> l.deployment, i |-> l.i,
                   log |-> Append(l.log, RtCall("Create", NewCid, cs.Name, cs.Ports, TRUE)),
                   c |-> [ID |-> NewCid, Name |-> cs.Name, Status |-> "created",
                          Ports |-> cs.Ports]]]
          \/ /\ containers' = containers
             /\ pc' = [pc EXCEPT ![p] = "cleanup_stop"]
             /\ local' = [local EXCEPT ![p] =
                  [op |-> l.op, spec |-> l.spec, deployment |-> l.deployment, i |-> l.i,
                   log |-> Append(l.log, RtCall("Create", 0, cs.Name, cs.Ports, FALSE)),
                   err |-> ErrRuntime("Create", l.i), j |-> 1]]
    /\ UNCHANGED <<deployments, services, clock, mutex, dataDir>>

\* Mutant of CreateDeployment_Start: a failed Start is logged and the loop
\* goes on with the next replica.
CreateDeployment_Start_GoesOn(p) ==
    /\ pc[p] = "cd_start"
    /\ LET l == local[p]
       IN \E ok \in Outcomes(l.c.ID) :
            local' = [local EXCEPT ![p] =
               [op |-> l.op, spec |-> l.spec, i |-> l.i + 1,
                log |-> Append(l.log, RtCall("Start", l.c.ID, l.c.Name, l.c.Ports, ok)),
                deployment |-> IF ok
                               THEN [l.deployment EXCEPT !.Replicas =
                                       Append(@, [l.c EXCEPT !.Status = "running"])]
                               ELSE l.deployment]]
    /\ pc' = [pc EXCEPT ![p] = "cd_loop"]
    /\ UNCHANGED <<deployments, services, clock, containers, mutex, dataDir>>

\* containerManager.Start for the container just created
CreateDeployment_Start(p) ==
    /\ pc[p] = "cd_start"
    /\ LET l == local[p]
       IN \E ok \in Outcomes(l.c.ID) :
            IF ok
            THEN /\ pc' = [pc EXCEPT ![p] = "cd_loop"]
                 /\ local' = [local EXCEPT ![p] =
                      [op |-> l.op, spec |-> l.spec, i |-> l.i + 1,
                       log |-> Append(l.log, RtCall("Start", l.c.ID, l.c.Name, l.c.Ports, TRUE)),
                       deployment |-> [l.deployment EXCEPT !.Replicas =
                                         Append(@, [l.c EXCEPT !.Status = "running"])]]]
            ELSE /\ pc' = [pc EXCEPT ![p] = "cleanup_stop"]
                 /\ local' = [local EXCEPT ![p] =
                      [op |-> l.op, spec |-> l.spec, deployment |-> l.deployment, i |-> l.i,
                       log |-> Append(l.log, RtCall("Start", l.c.ID, l.c.Name, l.c.Ports, FALSE)),
                       err |-> ErrRuntime("Start", l.i), j |-> 1]]
    /\ UNCHANGED <<deployments, services, clock, containers, mutex, dataDir>>

\* The loop is over: the deployment becomes running and is registered.
CreateDeployment_Register(p) ==
    /\ pc[p] = "cd_loop"
    /\ local[p].i >= local[p].spec.Replicas
    /\ LET l == local[p]
           d == [l.deployment EXCEPT !.Status = "running"]
       IN /\ deployments' = (d.ID :> d) @@ deployments
          /\ local' = [local EXCEPT ![p] =
               [op |-> l.op, spec |-> l.spec, log |-> l.log, err |-> NoErr, val |-> d]]
    /\ pc' = [pc EXCEPT ![p] = "ret"]
    /\ UNCHANGED <<services, clock, containers, mutex, dataDir>>

(***************************************************************************)
(* cleanupDeployment: Stop, then Remove, for every replica of the list.    *)
(***************************************************************************)
\* Mutant of cleanupDeployment_Stop: a failed Stop skips the replica's Remove.
cleanupDeployment_Stop_SkipsRemove(p) ==
    /\ pc[p] = "cleanup_stop"
    /\ local[p].j <= Len(local[p].deployment.Replicas)
    /\ LET l == local[p]
           c == l.deployment.Replicas[l.j]
       IN \E ok \in Outcomes(c.ID) :
            /\ local' = [local EXCEPT ![p].log =
                           Append(@, RtCall("Stop", c.ID, c.Name, c.Ports, ok)),
                         ![p].j = IF ok THEN @ ELSE @ + 1]
            /\ pc' = [pc EXCEPT ![p] = IF ok THEN "cleanup_remove" ELSE "cleanup_stop"]
    /\ UNCHANGED <<deployments, services, clock, containers, mutex, dataDir>>

\* Mutant of cleanupDeployment_Stop: a failed Stop is tried again.
cleanupDeployment_Stop_Retries(p) ==
    /\ pc[p] = "cleanup_stop"
    /\ local[p].j <= Len(local[p].deployment.Replicas)
    /\ LET l == local[p]
           c == l.deployment.Replicas[l.j]
       IN \E ok \in Outcomes(c.ID) :
            /\ local' = [local EXCEPT ![p].log =
                           Append(@, RtCall("Stop", c.ID, c.Name, c.Ports, ok))]
            /\ pc' = [pc EXCEPT ![p] = IF ok THEN "cleanup_remove" ELSE "cleanup_stop"]
    /\ UNCHANGED <<deployments, services, clock, containers, mutex, dataDir>>

cleanupDeployment_Stop(p) ==
    /\ pc[p] = "cleanup_stop"
    /\ local[p].j <= Len(local[p].deployment.Replicas)
    /\ LET l == local[p]
           c == l.deployment.Replicas[l.j]
       IN \E ok \in Outcomes(c.ID) :
            local' = [local EXCEPT ![p].log =
                        Append(@, RtCall("Stop", c.ID, c.Name, c.Ports, ok))]
    /\ pc' = [pc EXCEPT ![p] = "cleanup_remove"]
    /\ UNCHANGED <<deployments, services, clock, containers, mutex, dataDir>>

cleanupDeployment_Remove(p) ==
    /\ pc[p] = "cleanup_remove"
    /\ LET l == local[p]
           c == l.deployment.Replicas[l.j]
       IN \E ok \in Outcomes(c.ID) :
            /\ local' = [local EXCEPT ![p].log =
                           Append(@, RtCall("Remove", c.ID, c.Name, c.Ports, ok)),
                         ![p].j = @ + 1]
            /\ containers' = IF ok THEN containers \ {c.ID} ELSE containers
    /\ pc' = [pc EXCEPT ![p] = "cleanup_stop"]
    /\ UNCHANGED <<deployments, services, clock, mutex, dataDir>>

\* Mutant of CreateDeployment_Fail: the partly built deployment is registered.
CreateDeployment_Fail_Registers(p) ==
    /\ pc[p] = "cleanup_stop"
    /\ local[p].op = "CreateDeployment"
    /\ local[p].j > Len(local[p].deployment.Replicas)
    /\ deployments' = (local[p].deployment.ID :> local[p].deployment) @@ deployments
    /\ local' = [local EXCEPT ![p] =
         [op |-> local[p].op, spec |-> local[p].spec, log |-> local[p].log,
          err |-> local[p].err]]
    /\ pc' = [pc EXCEPT ![p] = "ret"]
    /\ UNCHANGED <<services, clock, containers, mutex, dataDir>>

\* Mutant of CreateDeployment_Fail: a failed Stop or Remove of the cleanup
\* replaces the error that is returned.
CreateDeployment_Fail_ReportsCleanup(p) ==
    /\ pc[p] = "cleanup_stop"
    /\ local[p].op = "CreateDeployment"
    /\ local[p].j > Len(local[p].deployment.Replicas)
    /\ LET l == local[p]
           failed == { n \in 1..Len(l.log) :
                         l.log[n].call \in {"Stop", "Remove"} /\ ~l.log[n].ok }
       IN local' = [local EXCEPT ![p] =
            [op |-> l.op, spec |-> l.spec, log |-> l.log,
             err |-> IF failed = {} THEN l.err ELSE ErrRuntime("cleanup", l.i)]]
    /\ pc' = [pc EXCEPT ![p] = "ret"]
    /\ UNCHANGED <<deployments, services, clock, containers, mutex, dataDir>>

\* cleanup returned inside CreateDeployment: the runtime error is returned.
CreateDeployment_Fail(p) ==
    /\ pc[p] = "cleanup_stop"
    /\ local[p].op = "CreateDeployment"
    /\ local[p].j > Len(local[p].deployment.Replicas)
    /\ local' = [local EXCEPT ![p] =
         [op |-> local[p].op, spec |-> local[p].spec, log |-> local[p].log,
          err |-> local[p].err]]
    /\ pc' = [pc EXCEPT ![p] = "ret"]
    /\ UNCHANGED <<deployments, services, clock, containers, mutex, dataDir>>

(***************************************************************************)
(* DeleteDeployment                                                        *)
(***************************************************************************)
\* Lock and the search of the deployment by name.
DeleteDeployment_Body(p, name) ==
    /\ CanLock
    /\ Lock(p)
    /\ IF DeploymentNamed(name) = {}
       THEN /\ pc' = [pc EXCEPT ![p] = "ret"]
            /\ local' = [local EXCEPT ![p] =
                 [op |-> "DeleteDeployment", name |-> name, log |-> <<>>,
                  err |-> ErrNotFound(name)]]
       ELSE \E id \in DeploymentNamed(name) :
            /\ pc' = [pc EXCEPT ![p] = "cleanup_stop"]
            /\ local' = [local EXCEPT ![p] =
                 [op |-> "DeleteDeployment", name |-> name, log |-> <<>>,
                  deployment |-> deployments[id], deploymentID |-> id, j |-> 1]]
    /\ UNCHANGED <<deployments, services, clock, containers, dataDir>>

\* A direct call of the Scheduler.
DeleteDeployment(p, name) == pc[p] = "idle" /\ DeleteDeployment_Body(p, name)

\* Mutant of DeleteDeployment_Delete: a failed Stop or Remove fails the
\* deletion and the registry entry stays.
DeleteDeployment_Delete_FailsOnError(p) ==
    /\ pc[p] = "cleanup_stop"
    /\ local[p].op = "DeleteDeployment"
    /\ local[p].j > Len(local[p].deployment.Replicas)
    /\ LET l == local[p]
           failed == \E n \in 1..Len(l.log) : ~l.log[n].ok
       IN /\ deployments' =
                IF failed THEN deployments
                ELSE [id \in DOMAIN deployments \ {l.deploymentID} |-> deployments[id]]
          /\ local' = [local EXCEPT ![p] =
               [op |-> l.op, name |-> l.name, log |-> l.log,
                err |-> IF failed THEN ErrRuntime("cleanup", 0) ELSE NoErr]]
    /\ pc' = [pc EXCEPT ![p] = "ret"]
    /\ UNCHANGED <<services, clock, containers, mutex, dataDir>>

\* cleanup returned inside DeleteDeployment: its error is always nil, the
\* registry entry is deleted.
\* Mutant of DeleteDeployment_Delete: the entry stays in the registry, marked
\* deleted and without its replicas.
DeleteDeployment_Delete_MarksDeleted(p) ==
    /\ pc[p] = "cleanup_stop"
    /\ local[p].op = "DeleteDeployment"
    /\ local[p].j > Len(local[p].deployment.Replicas)
    /\ LET l == local[p]
       IN /\ deployments' = [deployments EXCEPT ![l.deploymentID].Status = "deleted",
                                                ![l.deploymentID].Replicas = <<>>]
          /\ local' = [local EXCEPT ![p] =
               [op |-> l.op, name |-> l.name, log |-> l.log, err |-> NoErr]]
    /\ pc' = [pc EXCEPT ![p] = "ret"]
    /\ UNCHANGED <<services, clock, containers, mutex, dataDir>>

\* Mutant of DeleteDeployment_Delete: success is returned and the entry is
\* left in the registry.
DeleteDeployment_Delete_KeepsEntry(p) ==
    /\ pc[p] = "cleanup_stop"
    /\ local[p].op = "DeleteDeployment"
    /\ local[p].j > Len(local[p].deployment.Replicas)
    /\ local' = [local EXCEPT ![p] =
         [op |-> local[p].op, name |-> local[p].name, log |-> local[p].log,
          err |-> NoErr]]
    /\ pc' = [pc EXCEPT ![p] = "ret"]
    /\ UNCHANGED <<deployments, services, clock, containers, mutex, dataDir>>

DeleteDeployment_Delete(p) ==
    /\ pc[p] = "cleanup_stop"
    /\ local[p].op = "DeleteDeployment"
    /\ local[p].j > Len(local[p].deployment.Replicas)
    /\ LET l == local[p]
       IN /\ deployments' = [id \in DOMAIN deployments \ {l.deploymentID} |-> deployments[id]]
          /\ local' = [local EXCEPT ![p] =
               [op |-> l.op, name |-> l.name, log |-> l.log, err |-> NoErr]]
    /\ pc' = [pc EXCEPT ![p] = "ret"]
    /\ UNCHANGED <<services, clock, containers, mutex, dataDir>>

(***************************************************************************)
(* validatePortConflicts.  Go iterates a map in an unspecified order, so   *)
(* the operators give the set of errors the scan can stop at.              *)
(***************************************************************************)
RECURSIVE SelfCheck(_, _, _)
SelfCheck(ports, k, usedPorts) ==
    IF k > Len(ports) THEN NoErr
    ELSE IF ports[k].Port <= 0 \/ ports[k].Port > MaxPort
         THEN ErrPortRange(ports[k].Port)
    ELSE IF ports[k].TargetPort <= 0 \/ ports[k].TargetPort > MaxPort
         THEN ErrTargetPortRange(ports[k].TargetPort)
    ELSE IF ports[k].Port \in usedPorts
         THEN ErrSelfConflict(ports[k].Port)
    ELSE SelfCheck(ports, k + 1, usedPorts \cup {ports[k].Port})

NewPorts(ports) == { ports[k].Port : k \in 1..Len(ports) }

\* The first of the hits of a scan in index order, as a set (empty when the
\* scan has no hit).
FirstIndex(hits) == { x \in hits : \A y \in hits : x <= y }

\* The scan of the existing services stops at the first port of a service
\* that equals a new port; any service that has one can come first.
ServiceConflict(svc, ports) ==
    LET hits == { e \in 1..Len(svc.Spec.Ports) : svc.Spec.Ports[e].Port \in NewPorts(ports) }
    IN  { ErrCrossService(svc.Spec.Ports[e].Port, svc.Name) : e \in FirstIndex(hits) }

\* Mutant of CrossServiceErrors: the existing services are not scanned.
CrossServiceErrors_None(ports) == {}

CrossServiceErrors(ports) ==
    UNION { ServiceConflict(services[id], ports) : id \in DOMAIN services }

\* The container ports of a replica whose host port parses and equals a new
\* port; a host port that does not parse is skipped.
ReplicaHits(replica, ports) ==
    { cp \in DOMAIN replica.Ports.m :
        /\ Atoi(replica.Ports.m[cp]).ok
        /\ Atoi(replica.Ports.m[cp]).val \in NewPorts(ports) }

\* Mutant of DeploymentConflict: only the first replica of a deployment is
\* scanned.
DeploymentConflict_FirstReplica(d, ports) ==
    IF d.Spec.Container.Ports.isNil \/ d.Replicas = <<>> THEN {}
    ELSE { ErrCrossDeployment(Atoi(d.Replicas[1].Ports.m[cp]).val, d.Name, cp) :
             cp \in ReplicaHits(d.Replicas[1], ports) }

DeploymentConflict(d, ports) ==
    IF d.Spec.Container.Ports.isNil THEN {}
    ELSE LET hits == { r \in 1..Len(d.Replicas) : ReplicaHits(d.Replicas[r], ports) # {} }
         IN  UNION { { ErrCrossDeployment(Atoi(d.Replicas[r].Ports.m[cp]).val, d.Name, cp) :
                         cp \in ReplicaHits(d.Replicas[r], ports) } :
                     r \in FirstIndex(hits) }

CrossDeploymentErrors(ports) ==
    UNION { DeploymentConflict(deployments[id], ports) : id \in DOMAIN deployments }

\* Mutant of validatePortConflicts: the existing services are scanned before
\* the spec's own mappings.
validatePortConflicts_ServicesFirst(ports) ==
    IF CrossServiceErrors(ports) # {} THEN CrossServiceErrors(ports)
    ELSE IF SelfCheck(ports, 1, {}) # NoErr THEN {SelfCheck(ports, 1, {})}
    ELSE IF CrossDeploymentErrors(ports) # {} THEN CrossDeploymentErrors(ports)
    ELSE {NoErr}

validatePortConflicts(ports) ==
    IF SelfCheck(ports, 1, {}) # NoErr THEN {SelfCheck(ports, 1, {})}
    ELSE IF CrossServiceErrors(ports) # {} THEN CrossServiceErrors(ports)
    ELSE IF CrossDeploymentErrors(ports) # {} THEN CrossDeploymentErrors(ports)
    ELSE {NoErr}

(***************************************************************************)
(* CreateService                                                           *)
(***************************************************************************)
\* Mutant of CreateService_Body: the ports are validated before the name is
\* checked.
CreateService_Body_PortsFirst(p, spec) ==
    /\ CanLock
    /\ Lock(p)
    /\ \E e \in validatePortConflicts(spec.Ports) :
         IF e # NoErr \/ ServiceNamed(spec.Name) # {}
         THEN /\ local' = [local EXCEPT ![p] =
                   [op |-> "CreateService", spec |-> spec, log |-> <<>>,
                    err |-> IF e # NoErr THEN e ELSE ErrAlreadyExists(spec.Name)]]
              /\ UNCHANGED <<services, clock>>
         ELSE \E t \in Readings :
              LET service == [ID |-> generateID(t), Name |-> spec.Name,
                              Spec |-> spec, Endpoints |-> <<>>,
                              Status |-> "active"]
              IN /\ clock' = t
                 /\ services' = (service.ID :> service) @@ services
                 /\ local' = [local EXCEPT ![p] =
                      [op |-> "CreateService", spec |-> spec, log |-> <<>>,
                       err |-> NoErr, val |-> service]]
    /\ pc' = [pc EXCEPT ![p] = "ret"]
    /\ UNCHANGED <<deployments, containers, dataDir>>

\* The body of CreateService, from the Lock to the return values.
CreateService_Body(p, spec) ==
    /\ CanLock
    /\ Lock(p)
    /\ IF ServiceNamed(spec.Name) # {}
       THEN /\ local' = [local EXCEPT ![p] =
                 [op |-> "CreateService", spec |-> spec, log |-> <<>>,
                  err |-> ErrAlreadyExists(spec.Name)]]
            /\ UNCHANGED <<services, clock>>
       ELSE \E e \in validatePortConflicts(spec.Ports) :
              IF e # NoErr
              THEN /\ local' = [local EXCEPT ![p] =
                        [op |-> "CreateService", spec |-> spec, log |-> <<>>, err |-> e]]
                   /\ UNCHANGED <<services, clock>>
              ELSE \E t \in Readings :
                   LET service == [ID |-> generateID(t), Name |-> spec.Name,
                                   Spec |-> spec, Endpoints |-> <<>>,
                                   Status |-> "active"]
                   IN /\ clock' = t
                      /\ services' = (service.ID :> service) @@ services
                      /\ local' = [local EXCEPT ![p] =
                           [op |-> "CreateService", spec |-> spec, log |-> <<>>,
                            err |-> NoErr, val |-> service]]
    /\ pc' = [pc EXCEPT ![p] = "ret"]
    /\ UNCHANGED <<deployments, containers, dataDir>>

\* A caller calls Scheduler.CreateService.
CreateService(p, spec) == pc[p] = "idle" /\ CreateService_Body(p, spec)

\* The caller whose requests come through the transport.
Requester == "p1"

(***************************************************************************)
(* createServiceHandler: the transport validates the decoded request and   *)
(* only then calls Scheduler.CreateService.  Requests carry any Type and   *)
(* port lists of up to MaxRequestPorts mappings.                           *)
(***************************************************************************)
RequestTypes == {"ClusterIP", "ExternalName"}

RequestPortMappings ==
    { [Port |-> 8, TargetPort |-> 80], [Port |-> 9, TargetPort |-> 0],
      [Port |-> 0, TargetPort |-> 80] }

RequestPortLists == UNION { [1..n -> RequestPortMappings] : n \in 0..MaxRequestPorts }

ServiceRequests ==
    { [Name |-> n, Type |-> t, Ports |-> ps] :
        n \in Names, t \in RequestTypes, ps \in RequestPortLists }

SupportedTypes == {"ClusterIP", "NodePort", "LoadBalancer"}

ErrBadRequest(what) == [kind |-> "BadRequest", what |-> what]

\* Mutant of ValidatePorts: only the first mapping is examined.
ValidatePorts_FirstOnly(ports, k) ==
    IF k > Len(ports) THEN NoErr
    ELSE IF ports[k].Port < 1 \/ ports[k].Port > MaxPort THEN ErrBadRequest("Port")
    ELSE IF ports[k].TargetPort < 1 \/ ports[k].TargetPort > MaxPort
         THEN ErrBadRequest("TargetPort")
    ELSE NoErr

\* The handler's loop over the ports: the first mapping out of range.
RECURSIVE ValidatePorts(_, _)
ValidatePorts(ports, k) ==
    IF k > Len(ports) THEN NoErr
    ELSE IF ports[k].Port < 1 \/ ports[k].Port > MaxPort THEN ErrBadRequest("Port")
    ELSE IF ports[k].TargetPort < 1 \/ ports[k].TargetPort > MaxPort
         THEN ErrBadRequest("TargetPort")
    ELSE ValidatePorts(ports, k + 1)

\* Mutant of InputValidation: the Type is only required to be non-empty.
InputValidation_AnyType(spec) ==
    IF spec.Name = "" THEN ErrBadRequest("Name")
    ELSE IF spec.Type = "" THEN ErrBadRequest("Type")
    ELSE IF Len(spec.Ports) = 0 THEN ErrBadRequest("Ports")
    ELSE ValidatePorts(spec.Ports, 1)

InputValidation(spec) ==
    IF spec.Name = "" THEN ErrBadRequest("Name")
    ELSE IF spec.Type = "" THEN ErrBadRequest("Type")
    ELSE IF spec.Type \notin SupportedTypes THEN ErrBadRequest("Type")
    ELSE IF Len(spec.Ports) = 0 THEN ErrBadRequest("Ports")
    ELSE ValidatePorts(spec.Ports, 1)

\* The input validation: a bad request is answered without calling the
\* Scheduler.
createServiceHandler(p, spec) ==
    /\ pc[p] = "idle"
    /\ IF InputValidation(spec) # NoErr
       THEN /\ pc' = [pc EXCEPT ![p] = "ret"]
            /\ local' = [local EXCEPT ![p] =
                 [op |-> "createServiceHandler", spec |-> spec, log |-> <<>>,
                  err |-> InputValidation(spec)]]
       ELSE /\ pc' = [pc EXCEPT ![p] = "csh_call"]
            /\ local' = [local EXCEPT ![p] =
                 [op |-> "createServiceHandler", spec |-> spec, log |-> <<>>]]
    /\ UNCHANGED <<deployments, services, clock, containers, mutex, dataDir>>

\* s.scheduler.CreateService(r.Context(), spec)
createServiceHandler_Call(p) ==
    /\ pc[p] = "csh_call"
    /\ CreateService_Body(p, local[p].spec)

(***************************************************************************)
(* DeleteService                                                           *)
(***************************************************************************)
\* Mutant of DeleteService: the search does not compare the names, the first
\* service found is deleted.
DeleteService_AnyName(p, name) ==
    /\ pc[p] = "idle"
    /\ CanLock
    /\ Lock(p)
    /\ IF DOMAIN services = {}
       THEN /\ local' = [local EXCEPT ![p] =
                 [op |-> "DeleteService", name |-> name, log |-> <<>>,
                  err |-> ErrNotFound(name)]]
            /\ services' = services
       ELSE \E serviceID \in DOMAIN services :
            /\ services' = [id \in DOMAIN services \ {serviceID} |-> services[id]]
            /\ local' = [local EXCEPT ![p] =
                 [op |-> "DeleteService", name |-> name, log |-> <<>>, err |-> NoErr]]
    /\ pc' = [pc EXCEPT ![p] = "ret"]
    /\ UNCHANGED <<deployments, clock, containers, dataDir>>

\* Mutant of DeleteService: deleting a registered service empties the
\* registry.
DeleteService_All(p, name) ==
    /\ pc[p] = "idle"
    /\ CanLock
    /\ Lock(p)
    /\ IF ServiceNamed(name) = {}
       THEN /\ local' = [local EXCEPT ![p] =
                 [op |-> "DeleteService", name |-> name, log |-> <<>>,
                  err |-> ErrNotFound(name)]]
            /\ services' = services
       ELSE /\ services' = [id \in {} |-> services[id]]
            /\ local' = [local EXCEPT ![p] =
                 [op |-> "DeleteService", name |-> name, log |-> <<>>, err |-> NoErr]]
    /\ pc' = [pc EXCEPT ![p] = "ret"]
    /\ UNCHANGED <<deployments, clock, containers, dataDir>>

\* Mutant of DeleteService: the service is marked deleted and stays in the
\* registry.
DeleteService_MarksDeleted(p, name) ==
    /\ pc[p] = "idle"
    /\ CanLock
    /\ Lock(p)
    /\ IF ServiceNamed(name) = {}
       THEN /\ local' = [local EXCEPT ![p] =
                 [op |-> "DeleteService", name |-> name, log |-> <<>>,
                  err |-> ErrNotFound(name)]]
            /\ services' = services
       ELSE \E serviceID \in ServiceNamed(name) :
            /\ services' = [services EXCEPT ![serviceID].Status = "deleted"]
            /\ local' = [local EXCEPT ![p] =
                 [op |-> "DeleteService", name |-> name, log |-> <<>>, err |-> NoErr]]
    /\ pc' = [pc EXCEPT ![p] = "ret"]
    /\ UNCHANGED <<deployments, clock, containers, dataDir>>

DeleteService_Body(p, name) ==
    /\ CanLock
    /\ Lock(p)
    /\ IF ServiceNamed(name) = {}
       THEN /\ local' = [local EXCEPT ![p] =
                 [op |-> "DeleteService", name |-> name, log |-> <<>>,
                  err |-> ErrNotFound(name)]]
            /\ services' = services
       ELSE \E serviceID \in ServiceNamed(name) :
            /\ services' = [id \in DOMAIN services \ {serviceID} |-> services[id]]
            /\ local' = [local EXCEPT ![p] =
                 [op |-> "DeleteService", name |-> name, log |-> <<>>, err |-> NoErr]]
    /\ pc' = [pc EXCEPT ![p] = "ret"]
    /\ UNCHANGED <<deployments, clock, containers, dataDir>>

\* A direct call of the Scheduler.
DeleteService(p, name) == pc[p] = "idle" /\ DeleteService_Body(p, name)

(***************************************************************************)
(* The read operations, under the shared lock.                             *)
(***************************************************************************)
Read(p, op, name, err, val) ==
    /\ pc[p] = "idle"
    /\ CanRLock
    /\ RLock(p)
    /\ local' = [local EXCEPT ![p] =
         [op |-> op, name |-> name, log |-> <<>>, err |-> err, val |-> val]]
    /\ pc' = [pc EXCEPT ![p] = "ret"]
    /\ UNCHANGED <<deployments, services, clock, containers, dataDir>>

\* Mutant of GetDeployment: the scan does not compare the names, any
\* registered deployment is returned.
GetDeployment_AnyName(p, name) ==
    IF DOMAIN deployments = {}
    THEN Read(p, "GetDeployment", name, ErrNotFound(name), {})
    ELSE \E id \in DOMAIN deployments :
            Read(p, "GetDeployment", name, NoErr, {deployments[id]})

GetDeployment(p, name) ==
    IF DeploymentNamed(name) = {}
    THEN Read(p, "GetDeployment", name, ErrNotFound(name), {})
    ELSE \E id \in DeploymentNamed(name) :
            Read(p, "GetDeployment", name, NoErr, {deployments[id]})

ListDeployments(p) ==
    Read(p, "ListDeployments", "", NoErr, { deployments[id] : id \in DOMAIN deployments })

GetService(p, name) ==
    IF ServiceNamed(name) = {}
    THEN Read(p, "GetService", name, ErrNotFound(name), {})
    ELSE \E id \in ServiceNamed(name) :
            Read(p, "GetService", name, NoErr, {services[id]})

ListServices(p) ==
    Read(p, "ListServices", "", NoErr, { services[id] : id \in DOMAIN services })

\* The function returns: the deferred Unlock / RUnlock runs.
Return(p) ==
    /\ pc[p] = "ret"
    /\ Unlock(p)
    /\ pc' = [pc EXCEPT ![p] = "idle"]
    /\ local' = [local EXCEPT ![p] = Idle]
    /\ UNCHANGED <<deployments, services, clock, containers, dataDir>>

(***************************************************************************)
(* Storage: one JSON file per document, "<ID>.json", in the subdirectory   *)
(* of its kind.  A file holds the JSON value that json.MarshalIndent       *)
(* wrote, text that does not parse, or cannot be read at all.              *)
(***************************************************************************)
Kinds == {"deployments", "services"}

FileName(id) == [base |-> id, ext |-> ".json"]

\* filepath.Ext
Ext(name) == name.ext

\* ioutil.ReadDir returns the entries sorted by file name.
SortedNames ==
    << FileName(<<"7">>), FileName(<<"8">>), FileName(<<"9">>),
       [base |-> <<"n", "o", "t", "e", "s">>, ext |-> ".txt"] >>

Json(value) == [kind |-> "json", value |-> value]
Garbage == [kind |-> "garbage"]
Unreadable == [kind |-> "unreadable"]

\* A map field tagged omitempty is left out when the map is nil or empty.
OmitEmpty(object, ports) ==
    IF ports.isNil \/ DOMAIN ports.m = {} THEN object ELSE object @@ [ports |-> ports.m]

\* json.Marshal of a time.Time writes the instant; the monotonic clock
\* reading that time.Now() attached is not part of the text.
MarshalContainer(c) ==
    OmitEmpty([id |-> c.ID, name |-> c.Name, status |-> c.Status], c.Ports)

MarshalDeployment(d) ==
    [id |-> d.ID, name |-> d.Name, status |-> d.Status, created |-> d.Created.instant,
     spec |-> [name |-> d.Spec.Name, replicas |-> d.Spec.Replicas,
               container |-> OmitEmpty([name |-> d.Spec.Container.Name],
                                       d.Spec.Container.Ports)],
     replicas |-> [k \in 1..Len(d.Replicas) |-> MarshalContainer(d.Replicas[k])]]

MarshalService(s) ==
    [id |-> s.ID, name |-> s.Name, status |-> s.Status, created |-> s.Created.instant,
     endpoints |-> s.Endpoints,
     spec |-> [name |-> s.Spec.Name, type |-> s.Spec.Type,
               ports |-> [k \in 1..Len(s.Spec.Ports) |->
                            [port |-> s.Spec.Ports[k].Port,
                             target_port |-> s.Spec.Ports[k].TargetPort]]]]

Marshal(kind, doc) ==
    IF kind = "deployments" THEN MarshalDeployment(doc) ELSE MarshalService(doc)

\* json.Unmarshal into a struct: a key that is absent leaves the zero value
\* of its field.
Field(object, key, zero) == IF key \in DOMAIN object THEN object[key] ELSE zero

UnmarshalPorts(object) ==
    IF "ports" \in DOMAIN object THEN MkPorts(object.ports) ELSE NilPorts

UnmarshalTime(object) == [instant |-> Field(object, "created", 0), monotonic |-> FALSE]

UnmarshalContainer(object) ==
    [ID |-> Field(object, "id", 0), Name |-> Field(object, "name", ""),
     Status |-> Field(object, "status", ""), Ports |-> UnmarshalPorts(object)]

UnmarshalDeployment(object) ==
    LET spec == Field(object, "spec", << >>)
        container == Field(spec, "container", << >>)
        replicas == Field(object, "replicas", << >>)
    IN  [ID |-> Field(object, "id", << >>), Name |-> Field(object, "name", ""),
         Status |-> Field(object, "status", ""), Created |-> UnmarshalTime(object),
         Spec |-> [Name |-> Field(spec, "name", ""),
                   Replicas |-> Field(spec, "replicas", 0),
                   Container |-> [Name |-> Field(container, "name", ""),
                                  Ports |-> UnmarshalPorts(container)]],
         Replicas |-> [k \in 1..Len(replicas) |-> UnmarshalContainer(replicas[k])]]

UnmarshalService(object) ==
    LET spec == Field(object, "spec", << >>)
        ports == Field(spec, "ports", << >>)
    IN  [ID |-> Field(object, "id", << >>), Name |-> Field(object, "name", ""),
         Status |-> Field(object, "status", ""), Created |-> UnmarshalTime(object),
         Endpoints |-> Field(object, "endpoints", << >>),
         Spec |-> [Name |-> Field(spec, "name", ""), Type |-> Field(spec, "type", ""),
                   Ports |-> [k \in 1..Len(ports) |->
                                [Port |-> Field(ports[k], "port", 0),
                                 TargetPort |-> Field(ports[k], "target_port", 0)]]]]

Unmarshal(kind, object) ==
    IF kind = "deployments" THEN UnmarshalDeployment(object) ELSE UnmarshalService(object)

ErrWrite(id) == [kind |-> "Write", id |-> id]
ErrRead(id) == [kind |-> "Read", id |-> id]
ErrParse(id) == [kind |-> "Parse", id |-> id]

\* The documents handed to the store.
DocIds == {<<"7">>, <<"8">>}

StoredPorts == { NilPorts, MkPorts(<< >>), MkPorts("80/tcp" :> <<"8">>) }

Times == { [instant |-> 1, monotonic |-> m] : m \in BOOLEAN }

DeploymentDocs ==
    { [ID |-> id, Name |-> "a", Status |-> "running", Created |-> t,
       Spec |-> [Name |-> "a", Replicas |-> 1,
                 Container |-> [Name |-> "app", Ports |-> ps]],
       Replicas |-> << [ID |-> 1, Name |-> ReplicaName("a", 0), Status |-> "running",
                        Ports |-> StripePorts(ps, 0)] >>] :
        id \in DocIds, ps \in StoredPorts, t \in Times }

ServiceDocs ==
    { [ID |-> id, Name |-> "a", Status |-> "active", Created |-> t, Endpoints |-> << >>,
       Spec |-> [Name |-> "a", Type |-> "ClusterIP", Ports |-> ps]] :
        id \in DocIds, ps \in {<< >>, <<[Port |-> 8, TargetPort |-> 80]>>}, t \in Times }

Docs(kind) == IF kind = "deployments" THEN DeploymentDocs ELSE ServiceDocs

\* Mutant of FilesAfterSave: a file that exists is not written again.
FilesAfterSave_KeepsOld(files, doc, kind, outcome) ==
    IF outcome = "written"
    THEN files @@ (FileName(doc.ID) :> Json(Marshal(kind, doc)))
    ELSE files

\* The file of the document after ioutil.WriteFile: written whole, or not
\* written because the file could not be opened, or cut short by a write
\* error after the truncation.
FilesAfterSave(files, doc, kind, outcome) ==
    CASE outcome = "written" -> (FileName(doc.ID) :> Json(Marshal(kind, doc))) @@ files
      [] outcome = "truncated" -> (FileName(doc.ID) :> Garbage) @@ files
      [] outcome = "failed" -> files

\* Save: MarshalIndent, then WriteFile to "<ID>.json".
Storage_Save(p, kind, doc) ==
    /\ pc[p] = "idle"
    /\ \E outcome \in {"written", "truncated", "failed"} :
         /\ dataDir' = [dataDir EXCEPT ![kind] = FilesAfterSave(@, doc, kind, outcome)]
         /\ local' = [local EXCEPT ![p] =
              [op |-> "Save", kind |-> kind, id |-> doc.ID,
               err |-> IF outcome = "written" THEN NoErr ELSE ErrWrite(doc.ID)]]
    /\ pc' = [pc EXCEPT ![p] = "ret"]
    /\ UNCHANGED <<deployments, services, clock, containers, mutex>>

\* ReadFile and Unmarshal of "<id>.json".
LoadResult(files, kind, id) ==
    IF FileName(id) \notin DOMAIN files THEN [err |-> ErrNotFound(id)]
    ELSE IF files[FileName(id)].kind = "unreadable" THEN [err |-> ErrRead(id)]
    ELSE IF files[FileName(id)].kind = "garbage" THEN [err |-> ErrParse(id)]
    ELSE [err |-> NoErr, val |-> Unmarshal(kind, files[FileName(id)].value)]

Storage_Load(p, kind, id) ==
    /\ pc[p] = "idle"
    /\ local' = [local EXCEPT ![p] =
         [op |-> "Load", kind |-> kind, id |-> id] @@ LoadResult(dataDir[kind], kind, id)]
    /\ pc' = [pc EXCEPT ![p] = "ret"]
    /\ UNCHANGED <<deployments, services, clock, containers, mutex, dataDir>>

\* The loop of LoadAll over the directory entries: an entry without the
\* .json extension is passed over, a file that cannot be read or parsed is
\* logged as a warning and passed over, the others are appended.
ListedFiles(files) ==
    LET Listed(name) == name \in DOMAIN files /\ Ext(name) = ".json"
    IN  SelectSeq(SortedNames, Listed)

\* Mutant of LoadAllResult: the first file that cannot be read or parsed
\* aborts the load with an error.
LoadAllResult_Aborts(files, kind) ==
    LET Loads(name) == files[name].kind = "json"
        Warns(name) == files[name].kind # "json"
        loaded == SelectSeq(ListedFiles(files), Loads)
    IN  IF SelectSeq(ListedFiles(files), Warns) # << >>
        THEN [err |-> ErrParse(<< >>), val |-> << >>, warnings |-> << >>]
        ELSE [err |-> NoErr,
              val |-> [k \in 1..Len(loaded) |-> Unmarshal(kind, files[loaded[k]].value)],
              warnings |-> << >>]

LoadAllResult(files, kind) ==
    LET Loads(name) == files[name].kind = "json"
        Warns(name) == files[name].kind # "json"
        loaded == SelectSeq(ListedFiles(files), Loads)
    IN  [err |-> NoErr,
         val |-> [k \in 1..Len(loaded) |-> Unmarshal(kind, files[loaded[k]].value)],
         warnings |-> SelectSeq(ListedFiles(files), Warns)]

Storage_LoadAll(p, kind) ==
    /\ pc[p] = "idle"
    /\ local' = [local EXCEPT ![p] =
         [op |-> "LoadAll", kind |-> kind] @@ LoadAllResult(dataDir[kind], kind)]
    /\ pc' = [pc EXCEPT ![p] = "ret"]
    /\ UNCHANGED <<deployments, services, clock, containers, mutex, dataDir>>

\* os.Remove of "<id>.json".
Storage_Delete(p, kind, id) ==
    /\ pc[p] = "idle"
    /\ IF FileName(id) \notin DOMAIN dataDir[kind]
       THEN /\ dataDir' = dataDir
            /\ local' = [local EXCEPT ![p] =
                 [op |-> "Delete", kind |-> kind, id |-> id, err |-> ErrNotFound(id)]]
       ELSE /\ dataDir' = [dataDir EXCEPT ![kind] =
                 [name \in DOMAIN @ \ {FileName(id)} |-> @[name]]]
            /\ local' = [local EXCEPT ![p] =
                 [op |-> "Delete", kind |-> kind, id |-> id, err |-> NoErr]]
    /\ pc' = [pc EXCEPT ![p] = "ret"]
    /\ UNCHANGED <<deployments, services, clock, containers, mutex>>

\* A data directory left by earlier runs: nothing, or a file that is not a
\* document, a file that does not parse, a file that cannot be read and a
\* document.
StoredDirs(kind) ==
    LET notes == SortedNames[4]
        doc == CHOOSE d \in Docs(kind) : d.ID = <<"7">>
    IN  { << >>,
          (notes :> Garbage) @@ (FileName(<<"9">>) :> Garbage),
          (FileName(<<"7">>) :> Json(Marshal(kind, doc))) @@ (FileName(<<"9">>) :> Unreadable),
          (FileName(<<"8">>) :> Json(<< >>)) }

InitStorage ==
    /\ deployments = << >>
    /\ services = << >>
    /\ clock = 0
    /\ containers = {}
    /\ mutex = [writer |-> None, readers |-> {}]
    /\ pc = [p \in Procs |-> "idle"]
    /\ local = [p \in Procs |-> Idle]
    /\ dataDir \in [deployments : StoredDirs("deployments"), services : StoredDirs("services")]

(***************************************************************************)
(* The server: Start loads the data directory and then serves requests.    *)
(* The handlers of the deployments validate the request and call the       *)
(* Scheduler.                                                              *)
(***************************************************************************)
\* loadFromStorage: LoadAllDeployments, then LoadAllServices; the numbers
\* of documents are logged and the documents themselves are dropped.
loadFromStorage(dir) ==
    LET ds == LoadAllResult(dir.deployments, "deployments")
        ss == LoadAllResult(dir.services, "services")
    IN  IF ds.err # NoErr THEN [err |-> ds.err, counts |-> << >>]
        ELSE IF ss.err # NoErr THEN [err |-> ss.err, counts |-> <<Len(ds.val)>>]
        ELSE [err |-> NoErr, counts |-> <<Len(ds.val), Len(ss.val)>>]

\* Start up to ListenAndServe: an error of loadFromStorage is logged as a
\* warning.  No registry is written.
Start(p) ==
    /\ pc[p] = "start"
    /\ local' = [local EXCEPT ![p] =
         [op |-> "Start", log |-> << >>, err |-> NoErr,
          loaded |-> loadFromStorage(dataDir)]]
    /\ pc' = [pc EXCEPT ![p] = "ret"]
    /\ UNCHANGED <<deployments, services, clock, containers, mutex, dataDir>>

ReplicaLimit == 100

\* The decoded bodies of the create-deployment requests.
DeploymentRequests ==
    { [Name |-> n, Replicas |-> r,
       Container |-> [Name |-> cn, Image |-> im, Ports |-> NilPorts]] :
        n \in Names \cup {""}, r \in {0, 1, 2, ReplicaLimit + 1},
        cn \in {"app", ""}, im \in {"nginx", ""} }

DeploymentValidation(spec) ==
    IF spec.Name = "" THEN ErrBadRequest("Name")
    ELSE IF spec.Replicas < 1 THEN ErrBadRequest("Replicas")
    ELSE IF spec.Replicas > ReplicaLimit THEN ErrBadRequest("Replicas")
    ELSE IF spec.Container.Name = "" THEN ErrBadRequest("Container.Name")
    ELSE IF spec.Container.Image = "" THEN ErrBadRequest("Container.Image")
    ELSE NoErr

\* The input validation: a bad request is answered without calling the
\* Scheduler.
createDeploymentHandler(p, spec) ==
    /\ pc[p] = "idle"
    /\ IF DeploymentValidation(spec) # NoErr
       THEN /\ pc' = [pc EXCEPT ![p] = "ret"]
            /\ local' = [local EXCEPT ![p] =
                 [op |-> "createDeploymentHandler", spec |-> spec, log |-> <<>>,
                  err |-> DeploymentValidation(spec)]]
       ELSE /\ pc' = [pc EXCEPT ![p] = "cdh_call"]
            /\ local' = [local EXCEPT ![p] =
                 [op |-> "createDeploymentHandler", spec |-> spec, log |-> <<>>]]
    /\ UNCHANGED <<deployments, services, clock, containers, mutex, dataDir>>

\* s.scheduler.CreateDeployment(r.Context(), spec); the handler then only
\* writes the response.
createDeploymentHandler_Call(p) ==
    /\ pc[p] = "cdh_call"
    /\ CreateDeployment_Body(p, local[p].spec)

\* Create-deployment requests that declare ports: no port, a low base host
\* port and the highest port number.
StripingRequests ==
    { [Name |-> "a", Replicas |-> r,
       Container |-> [Name |-> "app", Image |-> "nginx", Ports |-> t]] :
        r \in 0..MaxReplicas,
        t \in { NilPorts, MkPorts("80/tcp" :> <<"8">>),
                MkPorts("80/tcp" :> FormatInt(MaxPort)) } }

\* s.scheduler.GetDeployment(name), which takes and releases the shared
\* lock: an unknown name is answered with 404.
deleteDeploymentHandler(p, name) ==
    /\ pc[p] = "idle"
    /\ CanRLock
    /\ IF DeploymentNamed(name) = {}
       THEN /\ pc' = [pc EXCEPT ![p] = "ret"]
            /\ local' = [local EXCEPT ![p] =
                 [op |-> "deleteDeploymentHandler", name |-> name, log |-> <<>>,
                  err |-> ErrNotFound(name)]]
       ELSE /\ pc' = [pc EXCEPT ![p] = "ddh_call"]
            /\ local' = [local EXCEPT ![p] =
                 [op |-> "deleteDeploymentHandler", name |-> name, log |-> <<>>]]
    /\ UNCHANGED <<deployments, services, clock, containers, mutex, dataDir>>

\* s.scheduler.DeleteDeployment(r.Context(), name); the handler then only
\* writes the response.
deleteDeploymentHandler_Call(p) ==
    /\ pc[p] = "ddh_call"
    /\ DeleteDeployment_Body(p, local[p].name)

\* s.scheduler.GetService(name), which takes and releases the shared lock:
\* an unknown name is answered with 404.
deleteServiceHandler(p, name) ==
    /\ pc[p] = "idle"
    /\ CanRLock
    /\ IF ServiceNamed(name) = {}
       THEN /\ pc' = [pc EXCEPT ![p] = "ret"]
            /\ local' = [local EXCEPT ![p] =
                 [op |-> "deleteServiceHandler", name |-> name, log |-> <<>>,
                  err |-> ErrNotFound(name)]]
       ELSE /\ pc' = [pc EXCEPT ![p] = "dsh_call"]
            /\ local' = [local EXCEPT ![p] =
                 [op |-> "deleteServiceHandler", name |-> name, log |-> <<>>]]
    /\ UNCHANGED <<deployments, services, clock, containers, mutex, dataDir>>

\* s.scheduler.DeleteService(name); the handler then only writes the
\* response.
deleteServiceHandler_Call(p) ==
    /\ pc[p] = "dsh_call"
    /\ DeleteService_Body(p, local[p].name)

\* The status of the response of a delete request whose return values are
\* l: 404 when the Get of the handler failed, 500 when the delete of the
\* Scheduler returned an error, 200 otherwise.
StatusNotFound == 404
StatusInternalServerError == 500
StatusOK == 200

DeleteResponse(l) ==
    IF l.op \in {"deleteDeploymentHandler", "deleteServiceHandler"}
    THEN StatusNotFound
    ELSE IF l.err # NoErr THEN StatusInternalServerError
    ELSE StatusOK

ErrInternal(what) == [kind |-> "Internal", what |-> what]

(***************************************************************************)
(* The container requests of the transport: the container named in the URL *)
(* is looked up in the runtime and stopped or removed.  The handlers do    *)
(* not take the lock of the Scheduler and do not consult its registries.   *)
(* A request names the container by its ID.                                *)
(***************************************************************************)
\* resolveContainerID: containerManager.Get, and when it fails the scan of
\* containerManager.List.
resolveContainerID(p, op, cid) ==
    /\ pc[p] = "idle"
    /\ IF cid \notin containers
       THEN /\ pc' = [pc EXCEPT ![p] = "ret"]
            /\ local' = [local EXCEPT ![p] =
                 [op |-> op, name |-> cid, log |-> <<>>, err |-> ErrNotFound(cid)]]
       ELSE /\ pc' = [pc EXCEPT ![p] = "ch_call"]
            /\ local' = [local EXCEPT ![p] = [op |-> op, name |-> cid, log |-> <<>>]]
    /\ UNCHANGED <<deployments, services, clock, containers, mutex, dataDir>>

stopContainerHandler(p, cid) == resolveContainerID(p, "stopContainerHandler", cid)

removeContainerHandler(p, cid) == resolveContainerID(p, "removeContainerHandler", cid)

\* s.containerManager.Stop(r.Context(), containerID)
stopContainerHandler_Call(p) ==
    /\ pc[p] = "ch_call"
    /\ local[p].op = "stopContainerHandler"
    /\ \E ok \in Outcomes(local[p].name) :
         local' = [local EXCEPT ![p] =
            [op |-> local[p].op, name |-> local[p].name,
             log |-> <<RtCall("Stop", local[p].name, "", NilPorts, ok)>>,
             err |-> IF ok THEN NoErr ELSE ErrInternal("Stop")]]
    /\ pc' = [pc EXCEPT ![p] = "ret"]
    /\ UNCHANGED <<deployments, services, clock, containers, mutex, dataDir>>

\* s.containerManager.Remove(r.Context(), containerID)
removeContainerHandler_Call(p) ==
    /\ pc[p] = "ch_call"
    /\ local[p].op = "removeContainerHandler"
    /\ \E ok \in Outcomes(local[p].name) :
         /\ local' = [local EXCEPT ![p] =
              [op |-> local[p].op, name |-> local[p].name,
               log |-> <<RtCall("Remove", local[p].name, "", NilPorts, ok)>>,
               err |-> IF ok THEN NoErr ELSE ErrInternal("Remove")]]
         /\ containers' = IF ok THEN containers \ {local[p].name} ELSE containers
    /\ pc' = [pc EXCEPT ![p] = "ret"]
    /\ UNCHANGED <<deployments, services, clock, mutex, dataDir>>

\* The server process has been created and has not started.
InitServer ==
    /\ deployments = << >>
    /\ services = << >>
    /\ clock = 0
    /\ containers = {}
    /\ mutex = [writer |-> None, readers |-> {}]
    /\ pc = [p \in Procs |-> IF p = Requester THEN "start" ELSE "idle"]
    /\ local = [p \in Procs |-> Idle]
    /\ dataDir \in [deployments : StoredDirs("deployments"), services : StoredDirs("services")]

(***************************************************************************)
(* The operations on deployments, the operations on services, and the      *)
(* whole Scheduler.  The deployment operations never read or write the     *)
(* service registry and the service operations never write the deployment  *)
(* registry, so the properties of one kind of entity alone are checked     *)
(* under the specification of its operations, and the properties that      *)
(* relate the two under Spec.                                              *)
(***************************************************************************)
DeploymentOps(p) ==
    \/ \E spec \in DeploymentSpecs : CreateDeployment(p, spec)
    \/ CreateDeployment_Create(p)
    \/ CreateDeployment_Start(p)
    \/ CreateDeployment_Register(p)
    \/ cleanupDeployment_Stop(p)
    \/ cleanupDeployment_Remove(p)
    \/ CreateDeployment_Fail(p)
    \/ \E name \in Names : DeleteDeployment(p, name)
    \/ DeleteDeployment_Delete(p)
    \/ \E name \in Names : GetDeployment(p, name)
    \/ ListDeployments(p)
    \/ Return(p)

ServiceOps(p) ==
    \/ \E spec \in ServiceSpecs : CreateService(p, spec)
    \/ \E name \in Names : DeleteService(p, name)
    \/ \E name \in Names : GetService(p, name)
    \/ ListServices(p)
    \/ Return(p)

\* The requests of the transport: caller p1 creates services through the
\* handler while any caller deletes them.
TransportOps ==
    \/ \E spec \in ServiceRequests : createServiceHandler(Requester, spec)
    \/ createServiceHandler_Call(Requester)
    \/ \E p \in Procs : \E name \in Names : DeleteService(p, name)
    \/ \E p \in Procs : Return(p)

\* The service requests: p1 creates services through the handler or straight
\* from the Scheduler.
ServiceRequestOps ==
    \/ TransportOps
    \/ \E spec \in ServiceRequests : CreateService(Requester, spec)

\* The server: it starts, then serves one request at a time.
ServerOps ==
    \/ Start(Requester)
    \/ \E spec \in DeploymentRequests : createDeploymentHandler(Requester, spec)
    \/ createDeploymentHandler_Call(Requester)
    \/ CreateDeployment_Create(Requester)
    \/ CreateDeployment_Start(Requester)
    \/ CreateDeployment_Register(Requester)
    \/ cleanupDeployment_Stop(Requester)
    \/ cleanupDeployment_Remove(Requester)
    \/ CreateDeployment_Fail(Requester)
    \/ \E name \in Names : deleteDeploymentHandler(Requester, name)
    \/ deleteDeploymentHandler_Call(Requester)
    \/ DeleteDeployment_Delete(Requester)
    \/ \E spec \in ServiceRequests : createServiceHandler(Requester, spec)
    \/ createServiceHandler_Call(Requester)
    \/ ListDeployments(Requester)
    \/ ListServices(Requester)
    \/ Return(Requester)

NextServer == ServerOps

\* The Scheduler with callers that also look names up in another case.
ProbeNames == { "A" }

ReadOps_Probe(p) ==
    \/ \E name \in ProbeNames : GetDeployment(p, name)
    \/ \E name \in ProbeNames : GetService(p, name)

NextReads == \E p \in Procs : DeploymentOps(p) \/ ServiceOps(p) \/ ReadOps_Probe(p)

\* The container requests: the Requester works on deployments while the
\* other callers stop and remove containers.
ContainerOps(p) ==
    \/ \E cid \in Cids : stopContainerHandler(p, cid)
    \/ stopContainerHandler_Call(p)
    \/ \E cid \in Cids : removeContainerHandler(p, cid)
    \/ removeContainerHandler_Call(p)

NextContainers ==
    \/ DeploymentOps(Requester)
    \/ \E p \in Procs \ {Requester} : ContainerOps(p)

(***************************************************************************)
(* Callers that wait for the lock.  A caller that has called an operation  *)
(* of the Scheduler and is blocked in s.mutex.Lock() or s.mutex.RLock()    *)
(* has not entered the body yet: its position is still "idle" and local    *)
(* holds the call it is waiting to make.                                   *)
(***************************************************************************)
Pending(call) == [op |-> "pending", call |-> call]

LiveCalls ==
    { [op |-> "CreateDeployment",
       arg |-> [Name |-> "a", Replicas |-> MaxReplicas,
                Container |-> [Name |-> "app", Ports |-> NilPorts]]],
      [op |-> "DeleteDeployment", arg |-> "a"],
      [op |-> "GetDeployment", arg |-> "a"],
      [op |-> "ListDeployments", arg |-> ""],
      [op |-> "CreateService",
       arg |-> [Name |-> "a", Type |-> "ClusterIP",
                Ports |-> <<[Port |-> 8, TargetPort |-> 80]>>]],
      [op |-> "CreateService",
       arg |-> [Name |-> "b", Type |-> "ClusterIP",
                Ports |-> <<[Port |-> 9, TargetPort |-> 0]>>]],
      [op |-> "DeleteService", arg |-> "a"],
      [op |-> "GetService", arg |-> "a"],
      [op |-> "ListServices", arg |-> ""] }

\* The caller calls the operation and blocks on the lock.
Call(p, call) ==
    /\ pc[p] = "idle"
    /\ local[p] = Idle
    /\ local' = [local EXCEPT ![p] = Pending(call)]
    /\ UNCHANGED <<deployments, services, clock, containers, mutex, pc, dataDir>>

\* Lock or RLock returns and the body of the operation runs up to its
\* first runtime call or its return.
Acquire(p) ==
    /\ local[p].op = "pending"
    /\ LET call == local[p].call
       IN  \/ call.op = "CreateDeployment" /\ CreateDeployment(p, call.arg)
           \/ call.op = "DeleteDeployment" /\ DeleteDeployment(p, call.arg)
           \/ call.op = "GetDeployment" /\ GetDeployment(p, call.arg)
           \/ call.op = "ListDeployments" /\ ListDeployments(p)
           \/ call.op = "CreateService" /\ CreateService(p, call.arg)
           \/ call.op = "DeleteService" /\ DeleteService(p, call.arg)
           \/ call.op = "GetService" /\ GetService(p, call.arg)
           \/ call.op = "ListServices" /\ ListServices(p)

\* The steps of a caller that holds the lock: the runtime calls, which
\* return, the statements between them and the return.
Proceed(p) ==
    \/ CreateDeployment_Create(p)
    \/ CreateDeployment_Start(p)
    \/ CreateDeployment_Register(p)
    \/ cleanupDeployment_Stop(p)
    \/ cleanupDeployment_Remove(p)
    \/ CreateDeployment_Fail(p)
    \/ DeleteDeployment_Delete(p)
    \/ Return(p)

NextLive ==
    \E p \in Procs :
        \/ \E call \in LiveCalls : Call(p, call)
        \/ Acquire(p)
        \/ Proceed(p)

\* A caller that holds the lock goes on, and sync.RWMutex lets no waiter
\* starve: a waiter that could take the lock again and again does take it.
Fairness == \A p \in Procs : WF_vars(Proceed(p)) /\ SF_vars(Acquire(p))

\* The delete requests: the Requester creates entities, any caller asks
\* the transport to delete them.
DeleteRequestOps(p) ==
    \/ \E name \in Names : deleteDeploymentHandler(p, name)
    \/ deleteDeploymentHandler_Call(p)
    \/ \E name \in Names : deleteServiceHandler(p, name)
    \/ deleteServiceHandler_Call(p)
    \/ Proceed(p)

NextDeletes ==
    \/ \E call \in LiveCalls :
          \/ call.op = "CreateDeployment" /\ CreateDeployment(Requester, call.arg)
          \/ call.op = "CreateService" /\ CreateService(Requester, call.arg)
    \/ \E p \in Procs : DeleteRequestOps(p)

\* The create-deployment requests that declare ports and the delete
\* requests, one at a time.
NextStriping ==
    \/ \E spec \in StripingRequests : createDeploymentHandler(Requester, spec)
    \/ createDeploymentHandler_Call(Requester)
    \/ \E name \in Names : deleteDeploymentHandler(Requester, name)
    \/ deleteDeploymentHandler_Call(Requester)
    \/ Proceed(Requester)

NextTransport == TransportOps

NextServiceRequests == ServiceRequestOps

\* The operations of the Storage, called one at a time.
StorageOps ==
    \/ \E kind \in Kinds : \E doc \in Docs(kind) : Storage_Save(Requester, kind, doc)
    \/ \E kind \in Kinds : \E id \in DocIds : Storage_Load(Requester, kind, id)
    \/ \E kind \in Kinds : Storage_LoadAll(Requester, kind)
    \/ \E kind \in Kinds : \E id \in DocIds : Storage_Delete(Requester, kind, id)
    \/ Return(Requester)

NextStorage == StorageOps

NextDeployments == \E p \in Procs : DeploymentOps(p)

NextServices == \E p \in Procs : ServiceOps(p)

Next == \E p \in Procs : DeploymentOps(p) \/ ServiceOps(p)

SpecDeployments == Init /\ [][NextDeployments]_vars

SpecServices == Init /\ [][NextServices]_vars

SpecStorage == InitStorage /\ [][NextStorage]_vars

SpecServer == InitServer /\ [][NextServer]_vars

SpecReads == Init /\ [][NextReads]_vars

SpecContainers == Init /\ [][NextContainers]_vars

SpecLive == Init /\ [][NextLive]_vars /\ Fairness

SpecDeletes == Init /\ [][NextDeletes]_vars

SpecStriping == Init /\ [][NextStriping]_vars

SpecTransport == Init /\ [][NextTransport]_vars

SpecServiceRequests == Init /\ [][NextServiceRequests]_vars

Spec == Init /\ [][Next]_vars

(***************************************************************************)
(* Vocabulary of the properties.                                           *)
(***************************************************************************)
\* p has computed the return values of op and has not yet released the lock.
Returning(p, op) == pc[p] = "ret" /\ local[p].op = op

\* This step is p's entry into op: the lock is taken and the code up to the
\* first runtime call or the return has run.
Enters(p, op) == pc[p] = "idle" /\ pc'[p] # "idle" /\ local'[p].op = op

\* p is inside the replica loop or the cleanup of CreateDeployment.
Creating(p) ==
    /\ local[p].op = "CreateDeployment"
    /\ pc[p] \in {"cd_loop", "cd_start", "cleanup_stop", "cleanup_remove"}

\* The IDs of the containers the Create calls of a log returned, in order.
CreatedIds(log) ==
    LET Created(e) == e.call = "Create" /\ e.ok
        sel == SelectSeq(log, Created)
    IN  [n \in 1..Len(sel) |-> sel[n].id]

\* The Stop and Remove calls of a log, in order, as <<call, container ID>>.
CleanupCalls(log) ==
    LET Cleanup(e) == e.call \in {"Stop", "Remove"}
        sel == SelectSeq(log, Cleanup)
    IN  [n \in 1..Len(sel) |-> <<sel[n].call, sel[n].id>>]

\* Stop then Remove for the first k created containers.
StopRemovePairs(ids, k) ==
    [n \in 1..(2 * k) |->
        IF n % 2 = 1 THEN <<"Stop", ids[(n + 1) \div 2]>> ELSE <<"Remove", ids[n \div 2]>>]

\* The failed Create or Start calls of a log.
FailedCalls(log) ==
    { n \in 1..Len(log) : log[n].call \in {"Create", "Start"} /\ ~log[n].ok }

\* The number of replicas started before position n of a log.
StartedBefore(log, n) ==
    Cardinality({ m \in 1..(n - 1) : log[m].call = "Start" /\ log[m].ok })

FullyFormed(d) == d.Status = "running" /\ Len(d.Replicas) = d.Spec.Replicas

(***************************************************************************)
(* C1.  In every state, also while a CreateDeployment is in flight, every  *)
(* deployment in the registry, and every deployment GetDeployment or       *)
(* ListDeployments returns, has Status "running" and exactly Spec.Replicas *)
(* replicas.                                                               *)
(***************************************************************************)
C1_RegisteredFullyFormed ==
    /\ \A id \in DOMAIN deployments : FullyFormed(deployments[id])
    /\ \A p \in Procs :
         (Returning(p, "GetDeployment") \/ Returning(p, "ListDeployments"))
            => \A d \in local[p].val : FullyFormed(d)

\* A CreateDeployment holds a deployment that is "creating" with some but not
\* all of its replicas, while another deployment is registered.
C1_Witness ==
    \E p \in Procs :
        /\ Creating(p)
        /\ local[p].deployment.Status = "creating"
        /\ Len(local[p].deployment.Replicas) > 0
        /\ Len(local[p].deployment.Replicas) < local[p].spec.Replicas
        /\ DOMAIN deployments # {}

(***************************************************************************)
(* C2.  When Create or Start fails for replica index k, CreateDeployment   *)
(* returns the runtime error for index k, no deployment of that name is in *)
(* the registry, and the Stop and Remove calls it made are exactly Stop    *)
(* then Remove for each of the replicas 0..k-1, in order.                  *)
(***************************************************************************)
C2_AtomicRollback ==
    \A p \in Procs :
        (Returning(p, "CreateDeployment") /\ FailedCalls(local[p].log) # {}) =>
            \E n \in FailedCalls(local[p].log) :
                LET log == local[p].log
                    k == StartedBefore(log, n)
                IN  /\ FailedCalls(log) = {n}
                    /\ local[p].err = ErrRuntime(log[n].call, k)
                    /\ DeploymentNamed(local[p].spec.Name) = {}
                    /\ CleanupCalls(log) = StopRemovePairs(CreatedIds(log), k)

\* A CreateDeployment returns the error of replica 1 after cleaning replica 0.
C2_Witness ==
    \E p \in Procs :
        /\ Returning(p, "CreateDeployment")
        /\ local[p].err.kind = "Runtime"
        /\ local[p].err.index = 1
        /\ Len(CleanupCalls(local[p].log)) = 2

(***************************************************************************)
(* C3.  A CreateDeployment that succeeds for a spec with Replicas = R      *)
(* returns the deployment it registered; the deployment has exactly R      *)
(* replicas and the replica at position i is named "{spec.Name}-{i}".      *)
(***************************************************************************)
C3_ReplicaCountAndNames ==
    \A p \in Procs :
        (Returning(p, "CreateDeployment") /\ local[p].err = NoErr) =>
            LET d == local[p].val
                R == local[p].spec.Replicas
            IN  /\ d.ID \in DOMAIN deployments
                /\ deployments[d.ID] = d
                /\ Len(d.Replicas) = R
                /\ \A i \in 0..(R - 1) :
                      d.Replicas[i + 1].Name = local[p].spec.Name \o "-" \o ToString(i)

\* A CreateDeployment of two replicas returns success.
C3_Witness ==
    \E p \in Procs :
        /\ Returning(p, "CreateDeployment")
        /\ local[p].err = NoErr
        /\ local[p].spec.Replicas = 2

(***************************************************************************)
(* C4.  Port striping.  After a successful CreateDeployment, for every     *)
(* container port the template declares with a decimal base host port b,   *)
(* replica i was created with, and holds, host port b + i; every replica   *)
(* has the template's container ports, and the registered spec still holds *)
(* the template's base ports.  With bases 8 and 9, replica 1 gets 9 and    *)
(* 10.                                                                     *)
(***************************************************************************)
C4_PortStriping ==
    \A p \in Procs :
        (Returning(p, "CreateDeployment") /\ local[p].err = NoErr) =>
            LET d == local[p].val
                tpl == local[p].spec.Container.Ports
                creates == SelectSeq(local[p].log, LAMBDA e : e.call = "Create")
            IN  /\ d.Spec.Container.Ports = tpl
                /\ \A i \in 0..(local[p].spec.Replicas - 1) :
                      /\ d.Replicas[i + 1].Ports.isNil = tpl.isNil
                      /\ DOMAIN d.Replicas[i + 1].Ports.m = DOMAIN tpl.m
                      /\ creates[i + 1].ports = d.Replicas[i + 1].Ports
                      /\ \A cp \in DOMAIN tpl.m :
                            Atoi(tpl.m[cp]).ok =>
                               /\ Atoi(d.Replicas[i + 1].Ports.m[cp]).ok
                               /\ Atoi(d.Replicas[i + 1].Ports.m[cp]).val
                                     = Atoi(tpl.m[cp]).val + i
                /\ (tpl = MkPorts(("80/tcp" :> <<"8">>) @@ ("81/tcp" :> <<"9">>))
                      /\ local[p].spec.Replicas = 2)
                     => d.Replicas[2].Ports.m = ("80/tcp" :> <<"9">>) @@ ("81/tcp" :> <<"1", "0">>)

\* A CreateDeployment of two replicas with two declared ports returns success.
C4_Witness ==
    \E p \in Procs :
        /\ Returning(p, "CreateDeployment")
        /\ local[p].err = NoErr
        /\ local[p].spec.Replicas = 2
        /\ Cardinality(DOMAIN local[p].spec.Container.Ports.m) = 2

(***************************************************************************)
(* C5.  For every registered deployment, no two distinct replicas are      *)
(* bound to the same host port.                                            *)
(***************************************************************************)
HostPorts(replica) == { replica.Ports.m[cp] : cp \in DOMAIN replica.Ports.m }

C5_ReplicasDisjointHostPorts ==
    \A id \in DOMAIN deployments :
        \A r1, r2 \in 1..Len(deployments[id].Replicas) :
            r1 # r2 =>
               HostPorts(deployments[id].Replicas[r1])
                  \cap HostPorts(deployments[id].Replicas[r2]) = {}

(***************************************************************************)
(* C6.  In every state, no ExternalPort of a registered service equals the *)
(* integer value of a host port bound by a replica of a registered         *)
(* deployment.                                                             *)
(***************************************************************************)
ServiceExternalPorts ==
    UNION { NewPorts(services[id].Spec.Ports) : id \in DOMAIN services }

DeploymentHostPorts ==
    UNION { UNION { { Atoi(hp).val : hp \in { h \in HostPorts(deployments[id].Replicas[r]) :
                                                Atoi(h).ok } } :
                      r \in 1..Len(deployments[id].Replicas) } :
              id \in DOMAIN deployments }

C6_ServicesAndDeploymentsDisjoint == ServiceExternalPorts \cap DeploymentHostPorts = {}

(***************************************************************************)
(* C7.  As stated: in every state no two distinct registered services      *)
(* share an ExternalPort, and every CreateService whose spec contains an   *)
(* ExternalPort used by a registered service fails with an error that      *)
(* names a service that uses the port, the registry unchanged.             *)
(***************************************************************************)
NoSharedExternalPort ==
    \A id1, id2 \in DOMAIN services :
        id1 # id2 =>
           NewPorts(services[id1].Spec.Ports) \cap NewPorts(services[id2].Spec.Ports) = {}

\* The error of p's call names a registered service that uses one of the
\* ports of the call's spec.
NamesHolder(p) ==
    /\ "name" \in DOMAIN local'[p].err
    /\ \E id \in DOMAIN services :
          /\ services[id].Name = local'[p].err.name
          /\ NewPorts(services[id].Spec.Ports) \cap NewPorts(local'[p].spec.Ports) # {}

\* The error of p's call is the cross-service error for a port of the call's
\* spec and a registered service that uses that port.
CrossServiceError(p) ==
    /\ local'[p].err.kind = "CrossService"
    /\ local'[p].err.port \in NewPorts(local'[p].spec.Ports)
    /\ \E id \in DOMAIN services :
          /\ services[id].Name = local'[p].err.name
          /\ local'[p].err.port \in NewPorts(services[id].Spec.Ports)

UsesServicePort(p) ==
    /\ Enters(p, "CreateService")
    /\ NewPorts(local'[p].spec.Ports) \cap ServiceExternalPorts # {}

InRange(ports) ==
    \A k \in 1..Len(ports) :
        ports[k].Port \in 1..65535 /\ ports[k].TargetPort \in 1..65535

NoDuplicate(ports) ==
    \A k1, k2 \in 1..Len(ports) : ports[k1].Port = ports[k2].Port => k1 = k2

UsesDeploymentPort(p) ==
    /\ Enters(p, "CreateService")
    /\ NewPorts(local'[p].spec.Ports) \cap DeploymentHostPorts # {}

\* The error of p's call names a registered deployment and a container port
\* that a replica of it binds to one of the ports of the call's spec.
NamesDeploymentAndPort(p) ==
    /\ {"name", "cport"} \subseteq DOMAIN local'[p].err
    /\ \E id \in DOMAIN deployments :
          /\ deployments[id].Name = local'[p].err.name
          /\ \E r \in 1..Len(deployments[id].Replicas) :
                LET m == deployments[id].Replicas[r].Ports.m
                IN  /\ local'[p].err.cport \in DOMAIN m
                    /\ Atoi(m[local'[p].err.cport]).ok
                    /\ Atoi(m[local'[p].err.cport]).val \in NewPorts(local'[p].spec.Ports)

HostPortsParse ==
    \A id \in DOMAIN deployments :
        \A r \in 1..Len(deployments[id].Replicas) :
            \A hp \in HostPorts(deployments[id].Replicas[r]) : Atoi(hp).ok

DuplicatePorts(ports) ==
    { ports[k1].Port : k1 \in { k \in 1..Len(ports) :
                                  \E k2 \in 1..Len(ports) :
                                      k2 # k /\ ports[k2].Port = ports[k].Port } }

DuplicatesServicePort(p) ==
    /\ Enters(p, "CreateService")
    /\ DuplicatePorts(local'[p].spec.Ports) \cap ServiceExternalPorts # {}

C9_AsStated ==
    [][ \A p \in Procs :
          DuplicatesServicePort(p) => local'[p].err.kind = "SelfConflict" ]_vars

(***************************************************************************)
(* C9, amended.  Every CreateService whose port list has two mappings with *)
(* the same ExternalPort, that port being used by a registered service,    *)
(* fails, leaves the registry unchanged and never returns the              *)
(* cross-service error; it returns the self-conflict error, for a port the *)
(* list repeats, when the spec's Name is not registered and every mapping  *)
(* has Port and TargetPort in 1..65535.                                    *)
(***************************************************************************)
C9_SelfConflictBeforeCrossService ==
    [][ \A p \in Procs :
          DuplicatesServicePort(p) =>
             /\ local'[p].err # NoErr
             /\ services' = services
             /\ local'[p].err.kind # "CrossService"
             /\ (ServiceNamed(local'[p].spec.Name) = {} /\ InRange(local'[p].spec.Ports)) =>
                   /\ local'[p].err.kind = "SelfConflict"
                   /\ local'[p].err.port \in DuplicatePorts(local'[p].spec.Ports) ]_vars

\* A CreateService returns the self-conflict error for a port that a
\* registered service uses.
C9_Witness ==
    \E p \in Procs :
        /\ Returning(p, "CreateService")
        /\ local[p].err.kind = "SelfConflict"
        /\ local[p].err.port \in ServiceExternalPorts
        /\ ServiceNamed(local[p].spec.Name) = {}

(***************************************************************************)
(* C10.  A CreateDeployment whose Name a registered deployment has, and a  *)
(* CreateService whose Name a registered service has, returns the          *)
(* AlreadyExists error for that name straight from the name check: the     *)
(* deployment registry, the service registry and the runtime's containers  *)
(* are as they were and the call has made no runtime call.                 *)
(***************************************************************************)
DuplicateName(p) ==
    \/ Enters(p, "CreateDeployment") /\ DeploymentNamed(local'[p].spec.Name) # {}
    \/ Enters(p, "CreateService") /\ ServiceNamed(local'[p].spec.Name) # {}

C10_DuplicateNameRejected ==
    [][ \A p \in Procs :
          DuplicateName(p) =>
             /\ pc'[p] = "ret"
             /\ local'[p].err = [kind |-> "AlreadyExists", name |-> local'[p].spec.Name]
             /\ local'[p].log = <<>>
             /\ deployments' = deployments
             /\ services' = services
             /\ containers' = containers ]_vars

\* A CreateDeployment returns AlreadyExists while a deployment of that name
\* and a service are registered.
C10_Witness ==
    \E p \in Procs :
        /\ Returning(p, "CreateDeployment")
        /\ local[p].err.kind = "AlreadyExists"
        /\ DeploymentNamed(local[p].spec.Name) # {}
        /\ DOMAIN services # {}

(***************************************************************************)
(* C11.  In every state, whatever the interleaving of the callers' create  *)
(* and delete calls, no two registered deployments have the same Name and  *)
(* no two registered services have the same Name.                          *)
(***************************************************************************)
C11_NamesUnique ==
    /\ \A id1, id2 \in DOMAIN deployments :
          deployments[id1].Name = deployments[id2].Name => id1 = id2
    /\ \A id1, id2 \in DOMAIN services :
          services[id1].Name = services[id2].Name => id1 = id2

\* Two deployments and two services are registered, and a caller's create
\* with a registered name has just been rejected.
C11_Witness ==
    /\ Cardinality(DOMAIN deployments) = 2
    /\ Cardinality(DOMAIN services) = 2
    /\ \E p \in Procs :
          /\ pc[p] = "ret"
          /\ local[p].op \in {"CreateDeployment", "CreateService"}
          /\ local[p].err.kind = "AlreadyExists"

(***************************************************************************)
(* C12.  Registering a new deployment or service under its ID never        *)
(* overwrites a registry entry: an entry that is in a registry before and  *)
(* after a step is the same entry.                                         *)
(***************************************************************************)
C12_NeverOverwrites ==
    [][ /\ \A id \in DOMAIN deployments \cap DOMAIN deployments' :
              deployments'[id] = deployments[id]
        /\ \A id \in DOMAIN services \cap DOMAIN services' :
              services'[id] = services[id] ]_vars

(***************************************************************************)
(* C13.  Mutual exclusion.  While a caller is inside the body of a         *)
(* mutating operation (from the lock to the return, every runtime call     *)
(* included) it holds the write lock and no other caller is inside any     *)
(* operation of the Scheduler; callers inside read operations hold the     *)
(* shared lock, and only they can be inside at the same time.              *)
(***************************************************************************)
MutatingOps == {"CreateDeployment", "DeleteDeployment", "CreateService", "DeleteService"}
ReadOps == {"GetDeployment", "ListDeployments", "GetService", "ListServices"}

InBody(p, ops) == pc[p] # "idle" /\ local[p].op \in ops

C13_MutualExclusion ==
    \A p \in Procs :
        /\ InBody(p, MutatingOps) =>
              /\ mutex.writer = p
              /\ \A q \in Procs \ {p} : ~InBody(q, MutatingOps \cup ReadOps)
        /\ InBody(p, ReadOps) => (p \in mutex.readers /\ mutex.writer = None)

\* A CreateDeployment is between two runtime calls while a deployment and a
\* service are registered for the other caller to read or delete.
C13_Witness ==
    \E p \in Procs :
        /\ Creating(p)
        /\ pc[p] = "cd_start"
        /\ DOMAIN deployments # {}
        /\ DOMAIN services # {}

(***************************************************************************)
(* C14.  The runtime calls of a mutating call are contiguous: in a step in *)
(* which a caller issues a runtime call, no other caller is inside a       *)
(* mutating call, before or after the step, so no runtime call of another  *)
(* call falls between two runtime calls of one call.                       *)
(***************************************************************************)
IssuesCall(p) ==
    /\ pc[p] # "idle"
    /\ pc'[p] # "idle"
    /\ Len(local'[p].log) > Len(local[p].log)

C14_RuntimeCallsContiguous ==
    [][ \A p \in Procs :
          IssuesCall(p) =>
             \A q \in Procs \ {p} :
                /\ ~InBody(q, MutatingOps)
                /\ pc'[q] = pc[q]
                /\ local'[q] = local[q] ]_vars

\* A DeleteDeployment has issued the Stop and the Remove of a replica that
\* the CreateDeployment of the other caller's name left registered.
C14_Witness ==
    \E p \in Procs :
        /\ InBody(p, {"DeleteDeployment"})
        /\ Len(local[p].log) >= 2
        /\ DOMAIN deployments # {}

(***************************************************************************)
(* C15.  DeleteDeployment of a registered name takes the deployment of     *)
(* that name and does not return NotFound; when it returns, the runtime    *)
(* calls it made are exactly Stop then Remove for each replica of that     *)
(* deployment, in order, and whatever their outcomes the registry entry is *)
(* gone and the error is nil.                                              *)
(***************************************************************************)
ReplicaIds(d) == [n \in 1..Len(d.Replicas) |-> d.Replicas[n].ID]

C15_DeleteIsBestEffort ==
    [][ \A p \in Procs :
          /\ (Enters(p, "DeleteDeployment")
                /\ \E id \in DOMAIN deployments : deployments[id].Name = local'[p].name) =>
                /\ pc'[p] # "ret"
                /\ local'[p].deploymentID \in DOMAIN deployments
                /\ deployments[local'[p].deploymentID].Name = local'[p].name
                /\ local'[p].deployment = deployments[local'[p].deploymentID]
          /\ (InBody(p, {"DeleteDeployment"}) /\ pc[p] # "ret" /\ pc'[p] = "ret") =>
                /\ CleanupCalls(local'[p].log) =
                      StopRemovePairs(ReplicaIds(local[p].deployment),
                                      Len(local[p].deployment.Replicas))
                /\ Len(local'[p].log) = 2 * Len(local[p].deployment.Replicas)
                /\ local'[p].err = NoErr
                /\ local[p].deploymentID \notin DOMAIN deployments'
                /\ \A id \in DOMAIN deployments' :
                      deployments'[id].Name # local[p].name ]_vars

\* A DeleteDeployment returns success after the Stop and the Remove of its
\* first replica both failed, and the deployment is gone from the registry.
C15_Witness ==
    \E p \in Procs :
        /\ Returning(p, "DeleteDeployment")
        /\ local[p].err = NoErr
        /\ Len(local[p].log) >= 2
        /\ local[p].log[1].call = "Stop" /\ ~local[p].log[1].ok
        /\ local[p].log[2].call = "Remove" /\ ~local[p].log[2].ok
        /\ \A id \in DOMAIN deployments : deployments[id].Name # local[p].name

(***************************************************************************)
(* C16.  GetDeployment and DeleteDeployment with a name no registered      *)
(* deployment has, and GetService and DeleteService with a name no         *)
(* registered service has, return the NotFound error for that name         *)
(* straight from the search: both registries and the runtime's containers  *)
(* are as they were and the call has made no runtime call.                 *)
(***************************************************************************)
UnknownName(p) ==
    \/ /\ Enters(p, "GetDeployment") \/ Enters(p, "DeleteDeployment")
       /\ \A id \in DOMAIN deployments : deployments[id].Name # local'[p].name
    \/ /\ Enters(p, "GetService") \/ Enters(p, "DeleteService")
       /\ \A id \in DOMAIN services : services[id].Name # local'[p].name

C16_UnknownNameRejected ==
    [][ \A p \in Procs :
          UnknownName(p) =>
             /\ pc'[p] = "ret"
             /\ local'[p].err = [kind |-> "NotFound", name |-> local'[p].name]
             /\ local'[p].log = <<>>
             /\ deployments' = deployments
             /\ services' = services
             /\ containers' = containers ]_vars

\* A DeleteService returns NotFound while a service of the other name and a
\* deployment of the same name are registered.
C16_Witness ==
    \E p \in Procs :
        /\ Returning(p, "DeleteService")
        /\ local[p].err.kind = "NotFound"
        /\ DOMAIN services # {}
        /\ \E id \in DOMAIN deployments : deployments[id].Name = local[p].name

(***************************************************************************)
(* C17.  As stated: every request to create a service whose Name a         *)
(* registered service has ends with the AlreadyExists error, whatever else *)
(* is wrong with its spec: a call of Scheduler.CreateService returns it,   *)
(* and a request to createServiceHandler reaches that call.                *)
(***************************************************************************)
\* The step is the call of Scheduler.CreateService by p, by the caller itself
\* or by the handler serving it.
CallsCreateService(p) ==
    /\ pc[p] \in {"idle", "csh_call"}
    /\ pc'[p] = "ret"
    /\ local'[p].op = "CreateService"

NameTaken(p) == \E id \in DOMAIN services : services[id].Name = local'[p].spec.Name

C17_AsStated ==
    [][ \A p \in Procs :
          /\ (CallsCreateService(p) /\ NameTaken(p)) =>
                local'[p].err = [kind |-> "AlreadyExists", name |-> local'[p].spec.Name]
          /\ (Enters(p, "createServiceHandler") /\ NameTaken(p)) =>
                pc'[p] = "csh_call" ]_vars

\* The field constraints the handler checks.
FieldsValid(spec) ==
    /\ spec.Type \in {"ClusterIP", "NodePort", "LoadBalancer"}
    /\ Len(spec.Ports) >= 1
    /\ InRange(spec.Ports)

(***************************************************************************)
(* C17, amended.  A call of Scheduler.CreateService whose Name a           *)
(* registered service has returns AlreadyExists and leaves the registry    *)
(* unchanged whatever else is wrong with the spec: the name check comes    *)
(* before the Scheduler's port validation.  createServiceHandler checks    *)
(* the Type, the presence of a port mapping and the port ranges before it  *)
(* calls the Scheduler: a request with such a defect is answered with the  *)
(* validation error also when its Name is registered, and only a request   *)
(* without one reaches the name check.                                     *)
(***************************************************************************)
C17_NameCheckedFirstInScheduler ==
    [][ \A p \in Procs :
          /\ (CallsCreateService(p) /\ NameTaken(p)) =>
                /\ local'[p].err = [kind |-> "AlreadyExists", name |-> local'[p].spec.Name]
                /\ services' = services
          /\ Enters(p, "createServiceHandler") =>
                /\ services' = services
                /\ mutex' = mutex
                /\ IF FieldsValid(local'[p].spec)
                   THEN pc'[p] = "csh_call"
                   ELSE pc'[p] = "ret" /\ local'[p].err.kind = "BadRequest" ]_vars

\* A direct call of CreateService returns AlreadyExists for a spec with an
\* unsupported Type, a repeated ExternalPort and a TargetPort out of range.
C17_Witness ==
    \E p \in Procs :
        /\ Returning(p, "CreateService")
        /\ local[p].err.kind = "AlreadyExists"
        /\ local[p].spec.Type \notin {"ClusterIP", "NodePort", "LoadBalancer"}
        /\ ~NoDuplicate(local[p].spec.Ports)
        /\ ~InRange(local[p].spec.Ports)

(***************************************************************************)
(* C18.  As stated: every request to create a service with a fresh Name    *)
(* whose port list contains a mapping out of range and two mappings that   *)
(* share an ExternalPort fails with the range error, wherever the          *)
(* mappings stand in the list.                                             *)
(***************************************************************************)
RangeAndDuplicate(spec) == ~InRange(spec.Ports) /\ ~NoDuplicate(spec.Ports)

RangeError(err) ==
    \/ err.kind \in {"PortRange", "TargetPortRange"}
    \/ err.kind = "BadRequest" /\ err.what \in {"Port", "TargetPort"}

C18_AsStated ==
    [][ \A p \in Procs :
          ( /\ CallsCreateService(p) \/ Enters(p, "createServiceHandler")
            /\ ~NameTaken(p)
            /\ local'[p].spec.Type \in {"ClusterIP", "NodePort", "LoadBalancer"}
            /\ RangeAndDuplicate(local'[p].spec) )
          => pc'[p] = "ret" /\ RangeError(local'[p].err) ]_vars

\* The positions of the mappings out of range, and of the mappings whose
\* ExternalPort an earlier mapping of the list has.
OutOfRangeAt(ports) ==
    { k \in 1..Len(ports) :
        ports[k].Port \notin 1..65535 \/ ports[k].TargetPort \notin 1..65535 }

RepeatedAt(ports) ==
    { k \in 1..Len(ports) : \E j \in 1..(k - 1) : ports[j].Port = ports[k].Port }

(***************************************************************************)
(* C18, amended.  A request through createServiceHandler whose Type is     *)
(* supported and whose port list contains a mapping out of range is        *)
(* answered with the range error, whatever mappings share an ExternalPort. *)
(* Scheduler.CreateService called directly with a fresh Name examines the  *)
(* mappings in list order, each for its range and then for a repetition    *)
(* of an earlier ExternalPort: the spec fails with the range error when a  *)
(* mapping out of range stands at or before the first repeating mapping,   *)
(* and with the self-conflict error when the first repeating mapping       *)
(* stands before every mapping out of range.  In both cases the registry   *)
(* is unchanged.                                                           *)
(***************************************************************************)
C18_FirstOffendingMapping ==
    [][ \A p \in Procs :
          /\ ( /\ Enters(p, "createServiceHandler")
               /\ local'[p].spec.Type \in {"ClusterIP", "NodePort", "LoadBalancer"}
               /\ RangeAndDuplicate(local'[p].spec) )
             => /\ pc'[p] = "ret"
                /\ RangeError(local'[p].err)
                /\ services' = services
          /\ ( /\ CallsCreateService(p)
               /\ ~NameTaken(p)
               /\ RangeAndDuplicate(local'[p].spec) )
             => LET ports == local'[p].spec.Ports
                    rangeFirst == \E k \in OutOfRangeAt(ports) :
                                     \A j \in RepeatedAt(ports) : k <= j
                IN /\ services' = services
                   /\ IF rangeFirst
                      THEN RangeError(local'[p].err)
                      ELSE local'[p].err.kind = "SelfConflict" ]_vars

\* A direct call returned the self-conflict error for a list whose third
\* mapping is out of range.
C18_Witness ==
    \E p \in Procs :
        /\ Returning(p, "CreateService")
        /\ RangeAndDuplicate(local[p].spec)
        /\ local[p].err.kind = "SelfConflict"

ActiveNoEndpoints(service) == service.Status = "active" /\ Len(service.Endpoints) = 0

C20_ActiveNoEndpoints ==
    /\ \A id \in DOMAIN services : ActiveNoEndpoints(services[id])
    /\ \A p \in Procs :
          (Returning(p, "CreateService") /\ local[p].err = [kind |-> "nil"]) =>
              ActiveNoEndpoints(local[p].val)

\* A CreateService has just returned the second registered service.
C20_Witness ==
    \E p \in Procs :
        /\ Returning(p, "CreateService")
        /\ local[p].err = [kind |-> "nil"]
        /\ Cardinality(DOMAIN services) = 2
        /\ local[p].val.ID \in DOMAIN services

(***************************************************************************)
(* C21.  When Create or Start fails for replica index k, the error of      *)
(* CreateDeployment is at that moment the runtime error of that call,      *)
(* annotated with k, and no step of the compensation changes it: the       *)
(* error returned is that error whatever the outcomes of the Stop and      *)
(* Remove calls.                                                           *)
(***************************************************************************)
\* This step of p is a Create or Start of CreateDeployment that fails.
ReplicaFails(p) ==
    /\ pc[p] \in {"cd_loop", "cd_start"}
    /\ pc'[p] = "cleanup_stop"

\* p is in the compensation of CreateDeployment.
Compensating(p) ==
    /\ local[p].op = "CreateDeployment"
    /\ pc[p] \in {"cleanup_stop", "cleanup_remove"}

FailedCleanupCalls(log) ==
    { n \in 1..Len(log) : log[n].call \in {"Stop", "Remove"} /\ ~log[n].ok }

C21_CleanupNeverChangesError ==
    [][ \A p \in Procs :
          /\ ReplicaFails(p) =>
                LET last == local'[p].log[Len(local'[p].log)]
                IN  /\ last.call = (IF pc[p] = "cd_loop" THEN "Create" ELSE "Start")
                    /\ ~last.ok
                    /\ local'[p].err =
                          [kind |-> "Runtime", call |-> last.call, index |-> local[p].i]
                    /\ local[p].i = Len(local[p].deployment.Replicas)
          /\ (Compensating(p) /\ local'[p] # local[p]) =>
                /\ pc'[p] \in {"cleanup_stop", "cleanup_remove", "ret"}
                /\ local'[p].err = local[p].err ]_vars

\* A CreateDeployment returns the error of its failed call after a Stop or a
\* Remove of its compensation failed.
C21_Witness ==
    \E p \in Procs :
        /\ Returning(p, "CreateDeployment")
        /\ local[p].err.kind = "Runtime"
        /\ local[p].err.call \in {"Create", "Start"}
        /\ FailedCleanupCalls(local[p].log) # {}

(***************************************************************************)
(* C26.  The Create and Start calls of one CreateDeployment are Create(0), *)
(* Start(0), Create(1), Start(1), ... in this order: every Start is for    *)
(* the container the Create before it returned, every call but the last    *)
(* succeeded, no Create or Start follows a Stop or Remove, and the         *)
(* replicas appended so far are exactly the containers whose Start         *)
(* succeeded, in order, marked running.                                    *)
(***************************************************************************)
\* The Create and Start calls of a log, in order.
LoopCalls(log) ==
    LET InLoop(e) == e.call \in {"Create", "Start"}
    IN  SelectSeq(log, InLoop)

\* The IDs of the containers whose Start succeeded, in order.
StartedIds(log) ==
    LET Started(e) == e.call = "Start" /\ e.ok
        sel == SelectSeq(log, Started)
    IN  [n \in 1..Len(sel) |-> sel[n].id]

C26_CreateStartInOrder ==
    \A p \in Procs :
        local[p].op = "CreateDeployment" =>
            LET log == local[p].log
                calls == LoopCalls(log)
            IN  /\ \A n \in 1..Len(calls) :
                      /\ calls[n].call = (IF n % 2 = 1 THEN "Create" ELSE "Start")
                      /\ n % 2 = 1 =>
                            calls[n].name = ReplicaName(local[p].spec.Name, (n - 1) \div 2)
                      /\ n % 2 = 0 => calls[n].id = calls[n - 1].id
                      /\ n < Len(calls) => calls[n].ok
                /\ \A m, n \in 1..Len(log) :
                      (m < n /\ log[m].call \in {"Stop", "Remove"}) =>
                          log[n].call \in {"Stop", "Remove"}
                /\ "deployment" \in DOMAIN local[p] =>
                      LET rs == local[p].deployment.Replicas
                      IN  /\ [k \in 1..Len(rs) |-> rs[k].ID] = StartedIds(log)
                          /\ \A k \in 1..Len(rs) : rs[k].Status = "running"

\* Create(0), Start(0), Create(1) succeeded and Start(1) failed.
C26_Witness ==
    \E p \in Procs :
        /\ Returning(p, "CreateDeployment")
        /\ Len(LoopCalls(local[p].log)) = 4
        /\ ~LoopCalls(local[p].log)[4].ok

(***************************************************************************)
(* C27.  After a CreateDeployment returned an error, if every Stop and     *)
(* Remove of its compensation succeeded, none of the containers its        *)
(* Create calls created exists in the runtime any more.                    *)
(***************************************************************************)
C27_NoContainerLeftBehind ==
    \A p \in Procs :
        ( /\ Returning(p, "CreateDeployment")
          /\ local[p].err.kind = "Runtime"
          /\ FailedCleanupCalls(local[p].log) = {} )
        => \A n \in 1..Len(CreatedIds(local[p].log)) :
               CreatedIds(local[p].log)[n] \notin containers

(***************************************************************************)
(* C28.  No runtime call is repeated within one operation: its log never   *)
(* holds two Create calls for one replica name, nor two Start, two Stop or *)
(* two Remove calls for one container, whether the calls failed or not.    *)
(***************************************************************************)
SameTarget(e, f) ==
    /\ e.call = f.call
    /\ IF e.call = "Create" THEN e.name = f.name ELSE e.id = f.id

C28_NoRetry ==
    \A p \in Procs :
        "log" \in DOMAIN local[p] =>
            \A m, n \in 1..Len(local[p].log) :
                SameTarget(local[p].log[m], local[p].log[n]) => m = n

\* A DeleteDeployment of two replicas has made its four calls, one of which
\* failed.
C28_Witness ==
    \E p \in Procs :
        /\ Returning(p, "DeleteDeployment")
        /\ Len(local[p].log) = 4
        /\ FailedCleanupCalls(local[p].log) # {}

(***************************************************************************)
(* C29.  No step of the Scheduler changes a registered entity: a           *)
(* deployment or a service that is in its registry before a step is after  *)
(* the step either there with the same ID, Name, Spec, Status and replica  *)
(* list (Endpoints for a service), or no longer the entity registered      *)
(* under its ID.  The steps of CreateService and DeleteService leave the   *)
(* deployment registry unchanged and the steps of CreateDeployment and     *)
(* DeleteDeployment leave the service registry unchanged.                  *)
(***************************************************************************)
\* This step is a step of p inside one of the operations ops.
Acts(p, ops) ==
    \/ pc[p] = "idle" /\ pc'[p] # "idle" /\ local'[p].op \in ops
    \/ /\ pc[p] # "idle"
       /\ local[p].op \in ops
       /\ pc'[p] # pc[p] \/ local'[p] # local[p]

\* The entity registered under id is the same entity before and after the
\* step: a create cannot register a second entity of the same Name.
StillRegistered(reg, regNext, id) ==
    /\ id \in DOMAIN regNext
    /\ regNext[id].Name = reg[id].Name

C29_RegisteredEntitiesImmutable ==
    [][ /\ \A id \in DOMAIN deployments :
              StillRegistered(deployments, deployments', id) =>
                  deployments'[id] = deployments[id]
        /\ \A id \in DOMAIN services :
              StillRegistered(services, services', id) =>
                  services'[id] = services[id]
        /\ \A p \in Procs :
              /\ Acts(p, {"CreateService", "DeleteService"}) =>
                    deployments' = deployments
              /\ Acts(p, {"CreateDeployment", "DeleteDeployment"}) =>
                    services' = services ]_vars

\* A DeleteDeployment has removed its deployment while another deployment
\* and a service are registered.
C29_Witness ==
    \E p \in Procs :
        /\ Returning(p, "DeleteDeployment")
        /\ local[p].err = [kind |-> "nil"]
        /\ DOMAIN deployments # {}
        /\ DOMAIN services # {}

(***************************************************************************)
(* C30.  DeleteService of a registered name succeeds, removes the service  *)
(* of that name and only it from the registry, leaves every other service, *)
(* every deployment and the runtime unchanged, and issues no runtime call. *)
(***************************************************************************)
C30_DeleteServiceRemovesOnlyIt ==
    [][ \A p \in Procs :
          ( /\ Enters(p, "DeleteService")
            /\ \E id \in DOMAIN services : services[id].Name = local'[p].name )
          => /\ \E id \in DOMAIN services :
                   /\ services[id].Name = local'[p].name
                   /\ DOMAIN services' = DOMAIN services \ {id}
             /\ \A id \in DOMAIN services' : services'[id] = services[id]
             /\ \A id \in DOMAIN services' : services'[id].Name # local'[p].name
             /\ deployments' = deployments
             /\ containers' = containers
             /\ local'[p].log = << >>
             /\ local'[p].err = [kind |-> "nil"]
             /\ pc'[p] = "ret" ]_vars

\* A DeleteService has removed its service while another service and a
\* deployment with a replica are registered.
C30_Witness ==
    \E p \in Procs :
        /\ Returning(p, "DeleteService")
        /\ local[p].err = [kind |-> "nil"]
        /\ \E id \in DOMAIN services : services[id].Name # local[p].name
        /\ \E id \in DOMAIN deployments : Len(deployments[id].Replicas) > 0

(***************************************************************************)
(* C24.  As stated: for every deployment document d and every content of   *)
(* the data directory, the LoadDeployment of d.ID that follows a           *)
(* successful SaveDeployment of d returns a document equal to d in every   *)
(* field.                                                                  *)
(***************************************************************************)
SavedThenLoaded(files, d) ==
    LoadResult(FilesAfterSave(files, d, "deployments", "written"), "deployments", d.ID)

NoEmptyMap(ports) == IF DOMAIN ports.m = {} THEN [isNil |-> TRUE, m |-> << >>] ELSE ports

AsWritten(d) ==
    [ID |-> d.ID, Name |-> d.Name, Status |-> d.Status,
     Created |-> [instant |-> d.Created.instant, monotonic |-> FALSE],
     Spec |-> [Name |-> d.Spec.Name, Replicas |-> d.Spec.Replicas,
               Container |-> [Name |-> d.Spec.Container.Name,
                              Ports |-> NoEmptyMap(d.Spec.Container.Ports)]],
     Replicas |-> [k \in 1..Len(d.Replicas) |->
                     [ID |-> d.Replicas[k].ID, Name |-> d.Replicas[k].Name,
                      Status |-> d.Replicas[k].Status,
                      Ports |-> NoEmptyMap(d.Replicas[k].Ports)]]]

JsonFiles(files) == { name \in DOMAIN files : name.ext = ".json" }

WellFormed(files) == { name \in JsonFiles(files) : files[name].kind = "json" }

Range(seq) == { seq[k] : k \in 1..Len(seq) }

C25_LoadAllSkipsCorrupt ==
    [][ \A p \in Procs :
          (Enters(p, "LoadAll")) =>
              LET files == dataDir[local'[p].kind]
                  r == local'[p]
              IN  /\ r.err = [kind |-> "nil"]
                  /\ Len(r.val) = Cardinality(WellFormed(files))
                  /\ Range(r.val) =
                        { Unmarshal(r.kind, files[name].value) : name \in WellFormed(files) }
                  /\ Len(r.warnings) = Cardinality(JsonFiles(files) \ WellFormed(files))
                  /\ Range(r.warnings) = JsonFiles(files) \ WellFormed(files)
                  /\ dataDir' = dataDir ]_vars

\* A load of a directory with two documents and one file that cannot be read or
\* parsed returned two documents and one warning.
C25_Witness ==
    \E p \in Procs :
        /\ Returning(p, "LoadAll")
        /\ Len(local[p].val) = 2
        /\ Len(local[p].warnings) = 1
        /\ local[p].err = [kind |-> "nil"]

(***************************************************************************)
(* C22.  When the transport has handled a create-deployment or a           *)
(* create-service request successfully, the data directory holds a         *)
(* document named by the ID of the new entity; when it has handled a       *)
(* delete request successfully, the data directory no longer holds the     *)
(* document of the deleted entity.                                         *)
(***************************************************************************)
StoredAfter(kind, id) == FileName(id) \in DOMAIN dataDir'[kind]

C22_HandledRequestsReachTheStore ==
    [][ /\ \A id \in DOMAIN deployments' \ DOMAIN deployments :
               StoredAfter("deployments", id)
        /\ \A id \in DOMAIN services' \ DOMAIN services :
               StoredAfter("services", id)
        /\ \A id \in DOMAIN deployments \ DOMAIN deployments' :
               ~StoredAfter("deployments", id)
        /\ \A id \in DOMAIN services \ DOMAIN services' :
               ~StoredAfter("services", id) ]_vars

(***************************************************************************)
(* C23.  When Start has loaded the data directory, every document with an  *)
(* ID that LoadAllDeployments and LoadAllServices return is registered in  *)
(* the Scheduler, so that the entities saved before the restart are listed *)
(* after it.                                                               *)
(***************************************************************************)
LoadedIds(kind) ==
    LET val == LoadAllResult(dataDir[kind], kind).val
    IN  { val[k].ID : k \in 1..Len(val) } \ { << >> }

C23_StoredEntitiesRegisteredAtStartup ==
    Returning(Requester, "Start") =>
        /\ LoadedIds("deployments") \subseteq { deployments[id].ID : id \in DOMAIN deployments }
        /\ LoadedIds("services") \subseteq { services[id].ID : id \in DOMAIN services }

(***************************************************************************)
(* C31.  GetDeployment and GetService return the registered entity whose   *)
(* Name equals the name asked for, letter case included, and the NotFound  *)
(* error when there is none; ListDeployments and ListServices return       *)
(* exactly the registered entities.  An entity is in what they read from   *)
(* the step in which its create succeeds and no longer from the step in    *)
(* which its delete succeeds, and a read never sees an entity that is      *)
(* still being created.                                                    *)
(***************************************************************************)
GetReturns(p, registry, kind) ==
    LET name == local'[p].name
        hits == { id \in DOMAIN registry : registry[id].Name = name }
    IN  /\ \A q \in Procs : ~(local[q].op = kind /\ pc[q] \notin {"idle", "ret"})
        /\ IF hits = {}
           THEN local'[p].err = ErrNotFound(name) /\ local'[p].val = {}
           ELSE /\ local'[p].err = NoErr
                /\ \E id \in hits : local'[p].val = { registry[id] }

ListReturns(p, registry) ==
    /\ local'[p].err = NoErr
    /\ local'[p].val = { registry[id] : id \in DOMAIN registry }

Succeeds(p, op) ==
    pc[p] # "ret" /\ pc'[p] = "ret" /\ local'[p].op = op /\ local'[p].err = NoErr

ReplicaCids(d) == { d.Replicas[n].ID : n \in 1..Len(d.Replicas) }

BeingDeleted(id) ==
    \E p \in Procs : /\ local[p].op = "DeleteDeployment"
                     /\ pc[p] \in {"cleanup_stop", "cleanup_remove"}
                     /\ local[p].deploymentID = id

StopsOrRemoves(p, cid) ==
    /\ "log" \in DOMAIN local'[p]
    /\ Len(local'[p].log) > 0
    /\ "log" \in DOMAIN local[p] => Len(local'[p].log) = Len(local[p].log) + 1
    /\ LET e == local'[p].log[Len(local'[p].log)]
       IN  e.call \in {"Stop", "Remove"} /\ e.ok /\ e.id = cid

C32_ReplicasLiveWithTheirDeployment ==
    [][ /\ \A id \in DOMAIN deployments :
              ~BeingDeleted(id) => ReplicaCids(deployments[id]) \subseteq containers
        /\ \A p \in Procs : \A cid \in RegisteredCids :
              StopsOrRemoves(p, cid) =>
                  /\ local[p].op = "DeleteDeployment"
                  /\ cid \in ReplicaCids(local[p].deployment) ]_vars

(***************************************************************************)
(* C33.  What a deleted entity held is released.  A successful             *)
(* DeleteDeployment or DeleteService leaves no registered entity of that   *)
(* name, and a create is rejected as AlreadyExists only for the name of an *)
(* entity registered at that moment, and a CreateService is rejected for a *)
(* port conflict only for a port that a service or a replica of a          *)
(* deployment registered at that moment holds: an entity that has been     *)
(* deleted rejects nothing.                                                *)
(***************************************************************************)
Rejected(p, op, kind) ==
    Enters(p, op) /\ pc'[p] = "ret" /\ local'[p].err.kind = kind

HeldByService(name, port) ==
    \E id \in DOMAIN services :
        /\ services[id].Name = name
        /\ \E k \in 1..Len(services[id].Spec.Ports) :
              services[id].Spec.Ports[k].Port = port

HeldByDeployment(name, port) ==
    \E id \in DOMAIN deployments :
        /\ deployments[id].Name = name
        /\ \E r \in 1..Len(deployments[id].Replicas) :
              \E hp \in HostPorts(deployments[id].Replicas[r]) :
                  Atoi(hp) = [ok |-> TRUE, val |-> port]

C33_DeletedEntitiesRejectNothing ==
    [][ \A p \in Procs :
          /\ Succeeds(p, "DeleteDeployment") =>
                 \A id \in DOMAIN deployments' : deployments'[id].Name # local'[p].name
          /\ Succeeds(p, "DeleteService") =>
                 \A id \in DOMAIN services' : services'[id].Name # local'[p].name
          /\ Rejected(p, "CreateDeployment", "AlreadyExists") =>
                 \E id \in DOMAIN deployments : deployments[id].Name = local'[p].spec.Name
          /\ Rejected(p, "CreateService", "AlreadyExists") =>
                 \E id \in DOMAIN services : services[id].Name = local'[p].spec.Name
          /\ Rejected(p, "CreateService", "CrossService") =>
                 HeldByService(local'[p].err.name, local'[p].err.port)
          /\ Rejected(p, "CreateService", "CrossDeployment") =>
                 HeldByDeployment(local'[p].err.name, local'[p].err.port) ]_vars

\* DeleteDeployment of "a" is returning success after a replica that held
\* host port 8 could not be removed: the container is still in the runtime,
\* and a CreateDeployment of "a" and a CreateService on port 8 would pass
\* the checks of the name and of the ports.
C33_Witness ==
    \E p \in Procs :
        /\ Returning(p, "DeleteDeployment")
        /\ local[p].err = NoErr
        /\ local[p].name = "a"
        /\ \E n \in 1..Len(local[p].log) :
              LET e == local[p].log[n]
              IN  /\ e.call = "Remove" /\ ~e.ok /\ e.id \in containers
                  /\ ~e.ports.isNil
                  /\ \E cp \in DOMAIN e.ports.m : Atoi(e.ports.m[cp]) = [ok |-> TRUE, val |-> 8]
        /\ DeploymentNamed("a") = {}
        /\ validatePortConflicts(<<[Port |-> 8, TargetPort |-> 80]>>) = {NoErr}

(***************************************************************************)
(* C34.  Every operation of the Scheduler releases the lock on every       *)
(* return path and never takes it twice: a caller that is outside the      *)
(* operations holds the lock neither as writer nor as reader, and the lock *)
(* is taken only by a caller that does not hold it.  Provided every        *)
(* runtime call returns, every operation that waits for the lock takes it  *)
(* and returns, whatever its outcome.                                      *)
(***************************************************************************)
Holds(p) == mutex.writer = p \/ p \in mutex.readers

Takes(p) ==
    \/ mutex'.writer = p /\ mutex.writer # p
    \/ p \in mutex'.readers /\ p \notin mutex.readers

OpNames ==
    {"CreateDeployment", "DeleteDeployment", "GetDeployment", "ListDeployments",
     "CreateService", "DeleteService", "GetService", "ListServices"}

Waits(p, op) == local[p].op = "pending" /\ local[p].call.op = op

C34_LockReleasedAndEveryCallCompletes ==
    /\ [](\A p \in Procs : pc[p] = "idle" => ~Holds(p))
    /\ [][\A p \in Procs : Takes(p) => ~Holds(p)]_vars
    /\ \A p \in Procs : \A op \in OpNames :
          Waits(p, op) ~> (local[p] = Idle /\ ~Holds(p))

\* One caller waits for the lock while the other, after a failed Start, is
\* compensating under the write lock.
C34_Witness ==
    \E p, q \in Procs :
        /\ Waits(p, "CreateService")
        /\ mutex.writer = q
        /\ Compensating(q)

(***************************************************************************)
(* C35.  A delete request for a name that no entity has at the moment the  *)
(* delete of the Scheduler runs is answered with 404, also when two delete *)
(* requests for one name are handled at the same time: the answer to a     *)
(* delete that found no entity is never 500.                               *)
(***************************************************************************)
C35_AbsentEntityAnsweredNotFound ==
    \A p \in Procs :
        ( /\ pc[p] = "ret"
          /\ local[p].op \in {"DeleteDeployment", "DeleteService",
                              "deleteDeploymentHandler", "deleteServiceHandler"}
          /\ local[p].err.kind = "NotFound" )
        => DeleteResponse(local[p]) = StatusNotFound

(***************************************************************************)
(* C36.  Every host port that the striping of CreateDeployment assigns to  *)
(* a replica, for a request that createDeploymentHandler accepted, is the  *)
(* decimal text of an integer from 1 to 65535.                             *)
(***************************************************************************)
ValidHostPort(hp) == Atoi(hp).ok /\ Atoi(hp).val >= 1 /\ Atoi(hp).val <= MaxPort

C36_StripedPortsInRange ==
    \A p \in Procs :
        local[p].op = "CreateDeployment" =>
            \A n \in 1..Len(local[p].log) :
                LET e == local[p].log[n]
                IN  (e.call = "Create" /\ ~e.ports.isNil) =>
                        \A cp \in DOMAIN e.ports.m : ValidHostPort(e.ports.m[cp])

(***************************************************************************)
(* C37.  A CreateDeployment whose template declares a base host port that  *)
(* is not a decimal integer fails in mustParseInt: it asks the runtime to  *)
(* create no container and registers no deployment.                        *)
(***************************************************************************)
NonNumericBase(spec) ==
    /\ ~spec.Container.Ports.isNil
    /\ \E cp \in DOMAIN spec.Container.Ports.m : ~Atoi(spec.Container.Ports.m[cp]).ok

C37_NonNumericBaseCreatesNothing ==
    /\ \A p \in Procs :
          (local[p].op = "CreateDeployment" /\ NonNumericBase(local[p].spec)) =>
              /\ local[p].log = << >>
              /\ pc[p] = "ret" => local[p].err # NoErr
    /\ \A id \in DOMAIN deployments : ~NonNumericBase(deployments[id].Spec)


====
